---- MODULE Spec2Model ----
(***************************************************************************)
(* A model of rust-modernity: the stability index builder and the path      *)
(* resolver (src/src/std_versions.rs), the usage walker                     *)
(* (src/src/analyzer.rs), the aggregator (src/src/disk.rs) and the loop     *)
(* over the versions of a crate (src/src/main.rs).                          *)
(*                                                                          *)
(* A VersionedItem tree is a function from literal paths (sequences of      *)
(* segment strings, <<>> for the unnamed root) to node records; a reference *)
(* to a node (&VersionedItem) is the literal path of that node.             *)
(***************************************************************************)
EXTENDS Integers, Sequences, FiniteSets, TLC

\* ------------------------------------------------------------------------
\* Small helpers on sequences and options.  An Option<T> is <<>> (None) or
\* <<x>> (Some(x)).
\* ------------------------------------------------------------------------
Front(s) ==
    SubSeq(s, 1, Len(s) - 1)

Last(s) ==
    s[Len(s)]

From(s, i) ==
    SubSeq(s, i, Len(s))

\* ------------------------------------------------------------------------
\* std_versions.rs: data
\* ------------------------------------------------------------------------
DefaultVersion ==
    "1.0.0"

\* For comparison: an item made without a default version.
NewItemUnversioned(name) ==
    [name |-> name, version |-> "TBD", public |-> TRUE]

\* VersionedItem::new(name): version "1.0.0", public, no children.  The name
\* "a::b" is kept as the sequence of its sections.
NewItem(name) ==
    [name |-> name, version |-> DefaultVersion, public |-> TRUE]

\* VersionConstructor::new(): a root item named "", no aliases, empty stack.
NewVersionConstructor ==
    [root |-> (<<>> :> NewItem(<<>>)), aliases |-> <<>>, path_stack |-> <<>>]

Named(n) ==
    [kind |-> "Named", name |-> n]

GlobChildren ==
    [kind |-> "GlobChildren", name |-> ""]

Alias(root, relative_path, local) ==
    [root |-> root, relative_path |-> relative_path, local |-> local]

\* For comparison: a lookup that finds the crates below the root and no
\* child further down, so that every deeper segment goes to the aliases.
HasChildOfRootOnly(tree, node, segment) ==
    node = <<>> /\ Append(node, segment) \in DOMAIN tree

HasChild(tree, node, segment) ==
    Append(node, segment) \in DOMAIN tree

\* ------------------------------------------------------------------------
\* std_versions.rs: the builder
\* ------------------------------------------------------------------------
push_path(vc, path) ==
    [vc EXCEPT !.path_stack = Append(@, path)]

pop_path(vc) ==
    [vc EXCEPT !.path_stack = IF @ = <<>> THEN @ ELSE Front(@)]

RECURSIVE pop_path_n(_, _)
pop_path_n(vc, n) ==
    IF n = 0 THEN vc ELSE pop_path_n(pop_path(vc), n - 1)

\* The sections of path_stack that current_item_mut descends through: "self"
\* is skipped.
RECURSIVE Sections(_)
Sections(stack) ==
    IF stack = <<>> THEN <<>>
    ELSE IF stack[1] = "self" THEN Sections(Tail(stack))
    ELSE <<stack[1]>> \o Sections(Tail(stack))

\* current_item_mut: get-or-create every node along the stack; a created
\* node is named after its parent's name and the section.
RECURSIVE EnsurePath(_, _, _)
EnsurePath(tree, sections, k) ==
    IF k > Len(sections) THEN tree
    ELSE LET node == SubSeq(sections, 1, k)
             parent == SubSeq(sections, 1, k - 1)
         IN IF node \in DOMAIN tree
            THEN EnsurePath(tree, sections, k + 1)
            ELSE EnsurePath(tree @@ (node :> NewItem(Append(tree[parent].name, sections[k]))),
                            sections, k + 1)

push_version(vc, version, public) ==
    LET sections == Sections(vc.path_stack)
        tree == EnsurePath(vc.root, sections, 1)
    IN [vc EXCEPT !.root = [tree EXCEPT ![sections] =
                               [@ EXCEPT !.version = version, !.public = public]]]

\* attrs is the "since" of the #[stable] attribute: <<>> when there is none.
push_version_from_attributes(vc, name, attrs, public) ==
    IF attrs = <<>> THEN vc
    ELSE pop_path(push_version(push_path(vc, name), attrs[1], public))

RECURSIVE process_use_tree(_, _, _, _, _)
RECURSIVE process_use_group(_, _, _, _, _, _)
process_use_tree(vc, relative_path, tree, attrs, public) ==
    CASE tree.kind = "Path" ->
           process_use_tree(vc,
                            IF tree.ident # "self" THEN Append(relative_path, tree.ident)
                                                   ELSE relative_path,
                            tree.sub[1], attrs, public)
      [] tree.kind = "Name" ->
           LET rel == IF tree.ident # "self" THEN Append(relative_path, tree.ident)
                                             ELSE relative_path
               local == IF tree.ident # "self" THEN Named(tree.ident)
                                               ELSE Named(Last(relative_path))
               pushed == [vc EXCEPT !.aliases = Append(@, Alias(vc.path_stack, rel, local))]
           IN push_version_from_attributes(pushed, tree.ident, attrs, public)
      [] tree.kind = "Rename" ->
           LET rel == IF tree.ident # "self" THEN Append(relative_path, tree.ident)
                                             ELSE relative_path
               pushed == [vc EXCEPT !.aliases =
                             Append(@, Alias(vc.path_stack, rel, Named(tree.rename)))]
           IN push_version_from_attributes(pushed, tree.ident, attrs, public)
      [] tree.kind = "Glob" ->
           [vc EXCEPT !.aliases = Append(@, Alias(vc.path_stack, relative_path, GlobChildren))]
      [] tree.kind = "Group" ->
           process_use_group(vc, relative_path, tree.sub, 1, attrs, public)

process_use_group(vc, relative_path, items, k, attrs, public) ==
    IF k > Len(items) THEN vc
    ELSE process_use_group(process_use_tree(vc, relative_path, items[k], attrs, public),
                           relative_path, items, k + 1, attrs, public)

\* push_type / push_type_path: a path type pushes its segments, any other
\* type gives None.  self_ty is <<>> for a non-path type, <<segments>> else.
push_type(vc, self_ty) ==
    IF self_ty = <<>> THEN vc
    ELSE LET RECURSIVE pushAll(_, _)
             pushAll(v, segs) ==
                 IF segs = <<>> THEN v ELSE pushAll(push_path(v, segs[1]), Tail(segs))
         IN pushAll(vc, self_ty[1])

\* The members of an enum, a trait or an inherent impl: a variant, a const,
\* a fn or a type is push_version_from_attributes with the member's own
\* name; a member of any other kind is skipped.
RECURSIVE process_members(_, _, _, _)
process_members(vc, members, k, forcePublic) ==
    IF k > Len(members) THEN vc
    ELSE process_members(
             IF members[k].kind \in {"Variant", "Const", "Fn", "Type"}
             THEN push_version_from_attributes(vc, members[k].ident, members[k].attrs,
                                               forcePublic \/ members[k].public)
             ELSE vc,
             members, k + 1, forcePublic)

RECURSIVE process_item(_, _)
RECURSIVE process_items(_, _, _)
process_item(vc, item) ==
    CASE item.kind \in {"Const", "Fn", "Static", "Struct", "TraitAlias", "Type", "Union"} ->
           push_version_from_attributes(vc, item.ident, item.attrs, item.public)
      [] item.kind \in {"Enum", "Trait"} ->
           pop_path(process_members(
               push_path(push_version_from_attributes(vc, item.ident, item.attrs, item.public),
                         item.ident),
               item.items, 1, TRUE))
      [] item.kind = "Impl" ->
           IF item.trait_ # <<>> THEN vc
           ELSE IF item.self_ty = <<>> THEN vc
           ELSE pop_path_n(process_members(push_type(vc, item.self_ty), item.items, 1, FALSE),
                           Len(item.self_ty[1]))
      [] item.kind = "Mod" ->
           IF ~item.content THEN vc
           ELSE pop_path(process_items(
                    push_path(push_version_from_attributes(vc, item.ident, item.attrs,
                                                           item.public),
                              item.ident),
                    item.items, 1))
      [] item.kind = "Use" ->
           process_use_tree(vc, <<>>, item.tree, item.attrs, FALSE)
      [] OTHER -> vc

process_items(vc, items, k) ==
    IF k > Len(items) THEN vc
    ELSE process_items(process_item(vc, items[k]), items, k + 1)

\* ------------------------------------------------------------------------
\* std_versions.rs: the resolver.  An outcome of resolve_path_from is
\*   Found(node)  Some(&item), the item given by its literal path
\*   NotFound     None
\*   Panicked     Option::unwrap() on None (the process aborts)
\*   Overflowed   the call is already active with the same arguments: the
\*                function is pure, so the recursion never returns and the
\*                process dies of stack exhaustion
\* `active` is the set of calls (root, root_path, path) on the call stack.
\* ------------------------------------------------------------------------
Found(node) ==
    [tag |-> "some", node |-> node]

NotFound ==
    [tag |-> "none", node |-> <<>>]

Panicked ==
    [tag |-> "panic", node |-> <<>>]

Overflowed ==
    [tag |-> "overflow", node |-> <<>>]

\* let mut root_path = root_path.to_vec(); "alloc_crate" in front becomes "alloc".
RewriteAllocCrate(root_path) ==
    IF root_path # <<>> /\ root_path[1] = "alloc_crate"
    THEN <<"alloc">> \o Tail(root_path)
    ELSE root_path

\* For comparison: a path_until_here that also takes the missed segment
\* path[i], so that a miss at the very first segment reaches the aliases of
\* the root scope.
PathUntilHereWithMissed(root_path, path, i) ==
    root_path \o SubSeq(path, 1, i)

\* The segment an alias is matched against and the scope its candidates are
\* taken from: path_until_here = root_path ++ path[..i], l = its popped last
\* segment, the scope is what remains.
PathUntilHere(root_path, path, i) ==
    root_path \o SubSeq(path, 1, i - 1)

RECURSIVE resolve_path_from(_, _, _, _, _)
RECURSIVE Descend(_, _, _, _, _, _, _)
RECURSIVE TryAliases(_, _, _, _, _, _, _, _)

\* The loop over the alias candidates (aliases whose root is `scope`, in
\* declaration order) after path[i] missed; k is the index in vc.aliases.
TryAliases(index, path, i, last, scope, l, k, active) ==
    IF k > Len(index.aliases) THEN NotFound
    ELSE LET alias == index.aliases[k]
             rel == alias.relative_path
             rest == From(path, i)
             \* last.or_else(|| resolve_path_from(&self.root, &[], &path_until_here)).unwrap()
             base == IF last # <<>> THEN Found(last[1])
                     ELSE LET fb == resolve_path_from(index, <<>>, <<>>, scope, active)
                          IN IF fb.tag = "none" THEN Panicked ELSE fb
             relative == resolve_path_from(index, base.node, scope, rel, active)
             absolute == resolve_path_from(index, <<>>, <<>>, rel, active)
         IN IF alias.root # scope
            THEN TryAliases(index, path, i, last, scope, l, k + 1, active)
            ELSE IF alias.local.kind = "Named"
            THEN IF alias.local.name # l
                 THEN TryAliases(index, path, i, last, scope, l, k + 1, active)
                 ELSE IF base.tag # "some" THEN base
                 ELSE IF relative.tag = "some"
                      THEN resolve_path_from(index, relative.node, scope \o rel, rest, active)
                 ELSE IF relative.tag # "none" THEN relative
                 ELSE IF absolute.tag = "some"
                      THEN resolve_path_from(index, absolute.node, rel, rest, active)
                 ELSE absolute
            ELSE IF base.tag # "some" THEN base
                 ELSE IF relative.tag \notin {"some", "none"} THEN relative
                 ELSE IF relative.tag = "some" /\ HasChild(index.root, relative.node, l)
                      THEN resolve_path_from(index, relative.node, scope \o rel, rest, active)
                 ELSE IF absolute.tag \notin {"some", "none"} THEN absolute
                 ELSE IF absolute.tag = "some" /\ HasChild(index.root, absolute.node, l)
                      THEN resolve_path_from(index, absolute.node, rel, rest, active)
                 ELSE TryAliases(index, path, i, last, scope, l, k + 1, active)

\* for (i, segment) in path.iter().enumerate(): `current` and `last` are the
\* loop's variables, i is 1-based.
Descend(index, root_path, path, i, current, last, active) ==
    IF i > Len(path) THEN Found(current)
    ELSE IF path[i] = "super" THEN NotFound
    ELSE IF path[i] = "self"
         THEN Descend(index, root_path, path, i + 1, current, last, active)
    ELSE IF HasChild(index.root, current, path[i])
         THEN Descend(index, root_path, path, i + 1, Append(current, path[i]), <<current>>,
                      active)
    ELSE LET path_until_here == PathUntilHere(root_path, path, i)
         IN IF path_until_here = <<>> THEN NotFound
            ELSE TryAliases(index, path, i, last, Front(path_until_here),
                            Last(path_until_here), 1, active)

resolve_path_from(index, root, root_path, path, active) ==
    LET frame == <<root, root_path, path>>
        running == active \cup {frame}
    IN IF frame \in active THEN Overflowed
       ELSE IF root_path # <<>> /\ path # <<>> /\ path[1] = "crate"
            THEN IF HasChild(index.root, <<>>, root_path[1])
                 THEN resolve_path_from(index, <<root_path[1]>>, <<root_path[1]>>,
                                        Tail(path), running)
                 ELSE NotFound
       ELSE IF root_path # <<>> /\ path # <<>> /\ path[1] = "alloc_crate"
            THEN IF HasChild(index.root, <<>>, "alloc")
                 THEN resolve_path_from(index, <<"alloc">>, <<"alloc">>, Tail(path), running)
                 ELSE NotFound
       ELSE Descend(index, RewriteAllocCrate(root_path), path, 1, root, <<>>, running)

\* get_version: the outcome of the resolution from the index root, and the
\* version it maps to (Option<&str>).
ResolveFromRoot(index, path) ==
    resolve_path_from(index, <<>>, <<>>, path, {})

get_version(index, path) ==
    LET r == ResolveFromRoot(index, path)
    IN IF r.tag = "some" THEN [tag |-> "some", version |-> index.root[r.node].version]
       ELSE [tag |-> r.tag, version |-> ""]

\* ------------------------------------------------------------------------
\* std_versions.rs: the snapshot (serde).  `name` and `path_stack` are
\* #[serde(skip)]: they are not written, and reading gives them their
\* Default (the empty string, the empty deque).
\* ------------------------------------------------------------------------
\* For comparison: a reader that restores the tree but not the alias list.
DeserializeWithoutAliases(doc) ==
    [root |-> [n \in DOMAIN doc.root |->
                  [name |-> <<>>, version |-> doc.root[n].version,
                   public |-> doc.root[n].public]],
     aliases |-> <<>>,
     path_stack |-> <<>>]

Serialize(index) ==
    [root |-> [n \in DOMAIN index.root |->
                  [version |-> index.root[n].version, public |-> index.root[n].public]],
     aliases |-> index.aliases]

\* What a write that stops half way leaves in the file: a prefix of the
\* document, here its first field without the second.
Truncated(doc) ==
    [root |-> doc.root]

\* serde_json::from_reader succeeds on a whole document only
Parses(doc) ==
    {"root", "aliases"} \subseteq DOMAIN doc

Deserialize(doc) ==
    [root |-> [n \in DOMAIN doc.root |->
                  [name |-> <<>>, version |-> doc.root[n].version,
                   public |-> doc.root[n].public]],
     aliases |-> doc.aliases,
     path_stack |-> <<>>]

CRATES ==
    <<"alloc", "core", "std">>

PreludeAlias ==
    Alias(<<>>, <<"std", "prelude", "v1">>, GlobChildren)

process_file(vc, name, items) ==
    pop_path(process_items(push_path(vc, name), items, 1))

\* load_version_constructor without a snapshot: the crates in turn, then the
\* synthetic prelude alias.  lib gives the items of each crate's source.
RECURSIVE ProcessCrates(_, _, _)
ProcessCrates(vc, lib, k) ==
    IF k > Len(CRATES) THEN vc
    ELSE ProcessCrates(process_file(vc, CRATES[k], lib[CRATES[k]]), lib, k + 1)

BuildIndex(lib) ==
    [ProcessCrates(NewVersionConstructor, lib, 1) EXCEPT !.aliases = Append(@, PreludeAlias)]

\* ------------------------------------------------------------------------
\* Expanded standard-library sources (syn::File), as the builder reads them.
\* Every item is a record of one shape; use trees likewise.
\* ------------------------------------------------------------------------
NoTree ==
    [kind |-> "None", ident |-> "", rename |-> "", sub |-> <<>>]

UsePath(ident, tree) ==
    [kind |-> "Path", ident |-> ident, rename |-> "", sub |-> <<tree>>]

UseName(ident) ==
    [kind |-> "Name", ident |-> ident, rename |-> "", sub |-> <<>>]

UseRename(ident, rename) ==
    [kind |-> "Rename", ident |-> ident, rename |-> rename, sub |-> <<>>]

UseGlob ==
    [kind |-> "Glob", ident |-> "", rename |-> "", sub |-> <<>>]

UseGroup(items) ==
    [kind |-> "Group", ident |-> "", rename |-> "", sub |-> items]

\* #[stable(feature = "..", since = v)]
Stable(v) ==
    <<v>>

Unmarked ==
    <<>>

\* A node of a syn syntax tree.  cat is the syn type of the node (Item,
\* ImplItem, TraitItem, Variant, Stmt, Expr, Type), kind its enum variant.
\* items are the nested items or members; kids are the types, statements
\* and expressions below the node, in source order.
SynNode(cat, kind) ==
    [cat |-> cat, kind |-> kind, ident |-> "", attrs |-> <<>>, public |-> FALSE,
     items |-> <<>>, content |-> FALSE, trait_ |-> <<>>, self_ty |-> <<>>, tree |-> NoTree,
     unsafety |-> FALSE, segs |-> <<>>, kids |-> <<>>]

Decl(kind, ident, attrs, public) ==
    [SynNode("Item", kind) EXCEPT !.ident = ident, !.attrs = attrs, !.public = public]

\* a member of an impl, a trait or an enum
Member(cat, kind, ident, attrs, public) ==
    [SynNode(cat, kind) EXCEPT !.ident = ident, !.attrs = attrs, !.public = public]

Container(kind, ident, attrs, public, items) ==
    [SynNode("Item", kind) EXCEPT !.ident = ident, !.attrs = attrs, !.public = public,
                                  !.items = items, !.content = TRUE]

\* impl [trait_ for] self_ty { items }: trait_ is an Option of the trait's
\* path, self_ty an Option of the segments of a path type.
Impl(trait_, self_ty, items) ==
    [SynNode("Item", "Impl") EXCEPT !.trait_ = trait_, !.self_ty = self_ty, !.items = items]

Use(attrs, tree) ==
    [SynNode("Item", "Use") EXCEPT !.attrs = attrs, !.public = TRUE, !.tree = tree]

Library(alloc, core, std) ==
    [alloc |-> alloc, core |-> core, std |-> std]

\* mod b { #[stable(since = "1.10.0")] pub struct Widget; }
ModB ==
    Container("Mod", "b", Stable("1.1.0"), TRUE,
              <<Decl("Struct", "Widget", Stable("1.10.0"), TRUE)>>)

\* #[stable] pub mod prelude { #[stable] pub mod v1 { items } }, as std has it
Prelude(items) ==
    Container("Mod", "prelude", Stable("1.0.0"), TRUE,
              <<Container("Mod", "v1", Stable("1.0.0"), TRUE, items)>>)

\* mod a { pub use b::*; } beside mod b: a glob re-export
LibGlob ==
    Library(<<>>, <<>>,
            <<Prelude(<<>>),
              Container("Mod", "a", Stable("1.1.0"), TRUE, <<Use(Unmarked, UsePath("b", UseGlob))>>),
              ModB>>)

\* the same with the module a unmarked (no node for a) and an absolute target
LibGlobCrate ==
    Library(<<>>, <<>>,
            <<Prelude(<<>>),
              Container("Mod", "a", Unmarked, FALSE,
                        <<Use(Unmarked, UsePath("crate", UsePath("b", UseGlob)))>>),
              ModB>>)

\* #[stable] pub use core::b; in std: the re-export leaves a stub std::b
LibStub ==
    Library(<<>>, <<ModB>>,
            <<Prelude(<<>>),
              Use(Stable("1.2.0"), UsePath("core", UseName("b")))>>)

\* #[stable] pub use alloc_crate::b; and #[stable] pub use crate::b as a;
LibShorthand ==
    Library(<<ModB>>, <<>>,
            <<Prelude(<<>>),
              Use(Stable("1.2.0"), UsePath("alloc_crate", UseName("b"))),
              Use(Stable("1.2.0"), UsePath("crate", UseRename("b", "a")))>>)

\* mod a { .. } and #[stable] pub use self::a; beside it: an alias of a to a
LibSelfAlias ==
    Library(<<>>, <<>>,
            <<Prelude(<<>>),
              Container("Mod", "a", Stable("1.1.0"), TRUE,
                        <<Decl("Fn", "Widget", Stable("1.10.0"), TRUE)>>),
              Use(Stable("1.2.0"), UsePath("self", UseName("a")))>>)

\* #[stable] pub use b as a; #[stable] pub use a as b;: a cycle of two
LibCycle ==
    Library(<<>>, <<>>,
            <<Prelude(<<>>),
              Use(Stable("1.2.0"), UseRename("b", "a")),
              Use(Stable("1.10.0"), UseRename("a", "b"))>>)

\* mod a { #[stable] pub use b::{self, Widget}; mod b { .. } }
LibGroup ==
    Library(<<>>, <<>>,
            <<Prelude(<<>>),
              Container("Mod", "a", Unmarked, TRUE,
                        <<Use(Stable("1.2.0"),
                              UsePath("b", UseGroup(<<UseName("self"), UseName("Widget")>>))),
                          ModB>>)>>)

\* a prelude with a symbol in it, and an item of every other kind
LibPrelude ==
    Library(<<>>,
            <<Container("Enum", "a", Stable("1.2.0"), FALSE,
                        <<Member("Variant", "Variant", "b", Stable("1.10.0"), FALSE)>>),
              Decl("Macro", "b", Stable("1.2.0"), TRUE)>>,
            <<Prelude(<<Container("Trait", "Widget", Stable("1.10.0"), TRUE,
                                  <<Member("TraitItem", "Fn", "a", Stable("1.2.0"), FALSE),
                                    Member("TraitItem", "Macro", "b", Stable("1.2.0"),
                                           FALSE)>>)>>),
              Decl("Struct", "Widget", Stable("1.2.0"), TRUE),
              Impl(<<>>, <<<<"Widget">>>>,
                   <<Member("ImplItem", "Fn", "b", Stable("1.10.0"), TRUE)>>),
              Impl(<<<<"Widget">>>>, <<<<"Widget">>>>,
                   <<Member("ImplItem", "Fn", "a", Stable("1.10.0"), TRUE)>>),
              Impl(<<>>, <<>>, <<Member("ImplItem", "Fn", "a", Stable("1.10.0"), TRUE)>>),
              [Decl("Mod", "b", Stable("1.2.0"), TRUE) EXCEPT !.content = FALSE]>>)

\* #[stable] pub mod a { pub use crate::b::Widget; } beside mod b: a named
\* re-export without a stability attribute of its own
LibNamedInner ==
    Library(<<>>, <<>>,
            <<Prelude(<<>>),
              Container("Mod", "a", Stable("1.1.0"), TRUE,
                        <<Use(Unmarked, UsePath("crate", UsePath("b", UseName("Widget"))))>>),
              ModB>>)

\* #[stable] pub use serde::b; #[stable] pub use core::b;: two imports of
\* the name b, the first from a crate the index does not hold
LibDuplicate ==
    Library(<<>>, <<ModB>>,
            <<Prelude(<<>>),
              Use(Stable("1.2.0"), UsePath("serde", UseName("b"))),
              Use(Stable("1.2.0"), UsePath("core", UseName("b")))>>)

\* #[stable] pub use core::b::{self, Widget};: the module b imported by a
\* terminal `self`
LibSelfImport ==
    Library(<<>>, <<ModB>>,
            <<Prelude(<<>>),
              Use(Stable("1.2.0"),
                  UsePath("core", UsePath("b", UseGroup(<<UseName("self"),
                                                         UseName("Widget")>>))))>>)

\* a library whose std has no prelude module at all
LibNoPrelude ==
    Library(<<>>, <<>>, <<ModB>>)

Libraries ==
    {LibGlob, LibGlobCrate, LibStub, LibShorthand, LibSelfAlias, LibCycle, LibGroup,
     LibPrelude, LibNamedInner, LibDuplicate, LibSelfImport, LibNoPrelude}

\* ------------------------------------------------------------------------
\* analyzer.rs: the usage walker.  The recursion of the handlers is kept as a
\* stack of the nodes still to be entered (`tasks`, the next one first): a
\* handler does its own work when its node is entered and leaves the nodes
\* it calls process_* on, in call order, on the stack, followed by what it
\* does after those calls return (a LeaveUnsafe or LeaveMod entry).
\* ------------------------------------------------------------------------
\* VersionAnalyzer::new.  alive says that the process still runs: a
\* resolution that never returns kills it.
NewVersionAnalyzer ==
    [path |-> <<>>, nested_unsafe |-> 0, version_counts |-> <<>>, total_exprs |-> 0,
     unsafe_exprs |-> 0, alive |-> TRUE]

\* For comparison: a count that records a version as seen, once, however
\* often it is submitted.
count_version_once(va, version) ==
    [va EXCEPT !.version_counts =
        IF version \in DOMAIN @ THEN @ ELSE @ @@ (version :> 1)]

count_version(va, version) ==
    [va EXCEPT !.version_counts =
        IF version \in DOMAIN @ THEN [@ EXCEPT ![version] = @ + 1]
        ELSE @ @@ (version :> 1)]

\* For comparison: a count that never looks at nested_unsafe.
count_expr_total_only(va) ==
    [va EXCEPT !.total_exprs = @ + 1]

\* For comparison: a count that takes every expression for an unsafe one.
count_expr_always_unsafe(va) ==
    [va EXCEPT !.total_exprs = @ + 1, !.unsafe_exprs = @ + 1]

count_expr(va) ==
    [va EXCEPT !.total_exprs = @ + 1,
               !.unsafe_exprs = IF va.nested_unsafe > 0 THEN @ + 1 ELSE @]

process_relative_path(va, index, relative_path) ==
    LET r == get_version(index, relative_path)
    IN IF ~va.alive THEN va
       ELSE IF r.tag = "some" THEN count_version(va, r.version)
       ELSE IF r.tag = "none" THEN va
       ELSE [va EXCEPT !.alive = FALSE]

\* process_path: the idents of the path's segments, then process_relative_path
process_path(va, index, segs) ==
    process_relative_path(va, index, segs)

RECURSIVE va_process_use_tree(_, _, _, _)
RECURSIVE va_process_use_group(_, _, _, _, _)
va_process_use_tree(va, index, relative_path, tree) ==
    CASE tree.kind = "Path" ->
           va_process_use_tree(va, index, Append(relative_path, tree.ident), tree.sub[1])
      [] tree.kind \in {"Name", "Rename"} ->
           process_relative_path(va, index, Append(relative_path, tree.ident))
      [] tree.kind = "Group" ->
           va_process_use_group(va, index, relative_path, tree.sub, 1)
      [] OTHER -> va

va_process_use_group(va, index, relative_path, items, k) ==
    IF k > Len(items) THEN va
    ELSE va_process_use_group(va_process_use_tree(va, index, relative_path, items[k]),
                              index, relative_path, items, k + 1)

\* what a handler leaves to do once the calls it made have returned
LeaveUnsafe(entry) ==
    [cat |-> "LeaveUnsafe", entry |-> entry]

LeaveMod ==
    [cat |-> "LeaveMod", entry |-> 0]

\* For comparison: an exit that forgets `self.nested_unsafe -= 1`.
exit_without_decrement(va) ==
    va

\* self.nested_unsafe += 1; .. ; self.nested_unsafe -= 1;
enter_unsafe(va) ==
    [va EXCEPT !.nested_unsafe = @ + 1]

exit_unsafe(va) ==
    [va EXCEPT !.nested_unsafe = @ - 1]

\* A handler's outcome: the analyzer after its own work, and the nodes it
\* goes on to visit.
Outcome(va, visit) ==
    [va |-> va, visit |-> visit]

\* a function with its signature and block: process_sig, process_block,
\* inside nested_unsafe += 1 / -= 1 when `checked` (the handler looks at
\* sig.unsafety) and the function is unsafe
process_fn(va, fn, checked) ==
    IF checked /\ fn.unsafety
    THEN Outcome(enter_unsafe(va), fn.kids \o <<LeaveUnsafe(va.nested_unsafe)>>)
    ELSE Outcome(va, fn.kids)

RECURSIVE KidsOfAll(_)
KidsOfAll(nodes) ==
    IF nodes = <<>> THEN <<>> ELSE nodes[1].kids \o KidsOfAll(Tail(nodes))

va_process_item(va, index, item) ==
    CASE item.kind \in {"Const", "Static", "Struct", "Type"} -> Outcome(va, item.kids)
      [] item.kind = "Enum" -> Outcome(va, KidsOfAll(item.items))
      [] item.kind = "Fn" -> process_fn(va, item, TRUE)
      [] item.kind = "Impl" ->
           Outcome(IF item.trait_ # <<>> THEN process_path(va, index, item.trait_[1]) ELSE va,
                   item.items)
      [] item.kind = "Mod" ->
           IF ~item.content THEN Outcome(va, <<>>)
           ELSE Outcome([va EXCEPT !.path = Append(@, item.ident)],
                        item.items \o <<LeaveMod>>)
      [] item.kind = "Trait" -> Outcome(va, item.items)
      [] item.kind = "Use" -> Outcome(va_process_use_tree(va, index, <<>>, item.tree), <<>>)
      [] OTHER -> Outcome(va, <<>>)

process_impl_item(va, item) ==
    CASE item.kind \in {"Const", "Type"} -> Outcome(va, item.kids)
      [] item.kind = "Fn" -> process_fn(va, item, TRUE)
      [] OTHER -> Outcome(va, <<>>)

\* the arms of process_item_trait: a trait method's unsafety is not looked at
process_trait_item(va, item) ==
    CASE item.kind \in {"Const", "Type"} -> Outcome(va, item.kids)
      [] item.kind = "Fn" -> process_fn(va, item, FALSE)
      [] OTHER -> Outcome(va, <<>>)

process_statement(va, stmt) ==
    IF stmt.kind \in {"Local", "Item", "Expr"} THEN Outcome(va, stmt.kids)
    ELSE Outcome(va, <<>>)

\* the expression kinds whose arm only walks the sub-expressions, blocks and
\* types of the node
ExprKindsWalked ==
    {"Array", "Assign", "Async", "Await", "Binary", "Block", "Break", "Call", "Cast",
     "Closure", "Const", "ForLoop", "Group", "If", "Index", "Let", "Loop", "Match",
     "MethodCall", "Paren", "Range", "Reference", "Repeat", "Return", "Try", "TryBlock",
     "Tuple", "Unary", "While", "Yield"}

process_expr(va, index, expr) ==
    LET counted == count_expr(va)
    IN CASE expr.kind \in ExprKindsWalked -> Outcome(counted, expr.kids)
         [] expr.kind = "Path" -> Outcome(process_path(counted, index, expr.segs), <<>>)
         [] expr.kind = "Struct" ->
              Outcome(process_path(counted, index, expr.segs), expr.kids)
         [] expr.kind = "Unsafe" ->
              Outcome(enter_unsafe(counted),
                      expr.kids \o <<LeaveUnsafe(counted.nested_unsafe)>>)
         [] OTHER -> Outcome(counted, <<>>)

TypeKindsWalked ==
    {"Array", "BareFn", "Group", "Paren", "Ptr", "Reference", "Slice", "Tuple"}

process_type(va, index, ty) ==
    CASE ty.kind \in TypeKindsWalked -> Outcome(va, ty.kids)
      [] ty.kind = "Path" -> Outcome(process_path(va, index, ty.segs), <<>>)
      [] OTHER -> Outcome(va, <<>>)

\* ------------------------------------------------------------------------
\* disk.rs: the aggregator.  An f32 is NaN, an infinity or a rational number
\* kept exact; ln is taken from a table of rationals that keeps what the
\* code's arithmetic depends on: ln 1 = 0, ln is increasing, and x / x = 1.
\* The rounding of f32 is not modelled.
\* ------------------------------------------------------------------------
RECURSIVE Gcd(_, _)
Gcd(a, b) ==
    IF b = 0 THEN a ELSE Gcd(b, a % b)

Abs(n) ==
    IF n < 0 THEN -n ELSE n

NaN ==
    [kind |-> "nan", num |-> 0, den |-> 1]

Infinity(sign) ==
    [kind |-> "inf", num |-> sign, den |-> 1]

\* the finite number num / den, den # 0, in lowest terms
Fin(num, den) ==
    LET g == Gcd(Abs(num), Abs(den))
        sgn == IF den < 0 THEN -1 ELSE 1
    IN [kind |-> "fin", num |-> sgn * (num \div g), den |-> sgn * (den \div g)]

\* n as f32
AsF32(n) ==
    Fin(n, 1)

Sign(x) ==
    IF x.num < 0 THEN -1 ELSE IF x.num > 0 THEN 1 ELSE 0

FAdd(a, b) ==
    IF a.kind = "nan" \/ b.kind = "nan" THEN NaN
    ELSE IF a.kind = "inf" /\ b.kind = "inf"
         THEN IF a.num = b.num THEN a ELSE NaN
    ELSE IF a.kind = "inf" THEN a
    ELSE IF b.kind = "inf" THEN b
    ELSE Fin(a.num * b.den + b.num * a.den, a.den * b.den)

FMul(a, b) ==
    IF a.kind = "nan" \/ b.kind = "nan" THEN NaN
    ELSE IF a.kind = "inf" \/ b.kind = "inf"
         THEN IF Sign(a) * Sign(b) = 0 THEN NaN ELSE Infinity(Sign(a) * Sign(b))
    ELSE Fin(a.num * b.num, a.den * b.den)

FDiv(a, b) ==
    IF a.kind = "nan" \/ b.kind = "nan" THEN NaN
    ELSE IF a.kind = "inf" /\ b.kind = "inf" THEN NaN
    ELSE IF a.kind = "inf" THEN Infinity(IF Sign(b) < 0 THEN -a.num ELSE a.num)
    ELSE IF b.kind = "inf" THEN AsF32(0)
    ELSE IF b.num = 0
         THEN IF a.num = 0 THEN NaN ELSE Infinity(Sign(a))
    ELSE Fin(a.num * b.den, a.den * b.num)

\* 1000 * ln(n), rounded, for the counts of the model
LnMilli(n) ==
    CASE n = 1 -> 0
      [] n = 2 -> 693
      [] n = 3 -> 1099
      [] n = 4 -> 1386
      [] n = 5 -> 1609
      [] n = 6 -> 1792
      [] n = 7 -> 1946
      [] n = 8 -> 2079

\* (n as f32).ln()
FLn(n) ==
    Fin(LnMilli(n), 1000)

\* The characters of the version strings of the model.
Chars(version) ==
    CASE version = "1.0.0" -> <<"1", ".", "0", ".", "0">>
      [] version = "1.1.0" -> <<"1", ".", "1", ".", "0">>
      [] version = "1.2.0" -> <<"1", ".", "2", ".", "0">>
      [] version = "1.10.0" -> <<"1", ".", "1", "0", ".", "0">>
      [] version = "1.42.0" -> <<"1", ".", "4", "2", ".", "0">>
      [] version = "1.x.0" -> <<"1", ".", "x", ".", "0">>
      [] version = "TBD" -> <<"T", "B", "D">>

\* version.split('.'): the fields between the dots, at least one
RECURSIVE Split(_, _)
Split(chars, sep) ==
    IF \A k \in 1..Len(chars) : chars[k] # sep THEN <<chars>>
    ELSE LET k == CHOOSE j \in 1..Len(chars) :
                      chars[j] = sep /\ \A h \in 1..(j - 1) : chars[h] # sep
         IN <<SubSeq(chars, 1, k - 1)>> \o Split(SubSeq(chars, k + 1, Len(chars)), sep)

DigitValue(c) ==
    CASE c = "0" -> 0 [] c = "1" -> 1 [] c = "2" -> 2 [] c = "3" -> 3 [] c = "4" -> 4
      [] c = "5" -> 5 [] c = "6" -> 6 [] c = "7" -> 7 [] c = "8" -> 8 [] c = "9" -> 9
      [] OTHER -> -1

RECURSIVE DigitsValue(_, _)
DigitsValue(chars, acc) ==
    IF chars = <<>> THEN acc ELSE DigitsValue(Tail(chars), 10 * acc + DigitValue(chars[1]))

\* s.parse::<usize>().ok(): decimal digits after an optional '+'
ParseUsize(chars) ==
    LET digits == IF chars # <<>> /\ chars[1] = "+" THEN Tail(chars) ELSE chars
    IN IF digits # <<>> /\ \A k \in 1..Len(digits) : DigitValue(digits[k]) >= 0
       THEN <<DigitsValue(digits, 0)>>
       ELSE <<>>

rust_version_to_number(version) ==
    LET fields == Split(Chars(version), ".")
    IN IF Len(fields) < 2 THEN <<>> ELSE ParseUsize(fields[2])

RECURSIVE MaxOf(_)
MaxOf(S) ==
    LET x == CHOOSE y \in S : TRUE
    IN IF S = {x} THEN x
       ELSE LET m == MaxOf(S \ {x}) IN IF x > m THEN x ELSE m

\* the weight of one version: (*amount as f32).ln() / max.ln()
weight(amount, max) ==
    FDiv(FLn(amount), FLn(max))

\* the loop of normalize_versions over the entries `keys` still to come.  A
\* HashMap gives them in any order; the sums are exact here, so the order
\* does not change the result.
RECURSIVE Accumulate(_, _, _, _, _)
Accumulate(versions, keys, max, acc, weight_acc) ==
    IF keys = {} THEN FDiv(acc, weight_acc)
    ELSE LET version == CHOOSE k \in keys : TRUE
             w == weight(versions[version], max)
             version_number == rust_version_to_number(version)
         IN IF version_number = <<>>
            THEN Accumulate(versions, keys \ {version}, max, acc, weight_acc)
            ELSE Accumulate(versions, keys \ {version}, max,
                            FAdd(acc, FMul(AsF32(version_number[1]), w)),
                            FAdd(weight_acc, w))

normalize_versions(versions) ==
    IF DOMAIN versions = {} THEN AsF32(1)
    ELSE Accumulate(versions, DOMAIN versions,
                    MaxOf({versions[k] : k \in DOMAIN versions}), AsF32(0), AsF32(0))

\* the Stats of analyze_single that come from the walk
Stats(va) ==
    [version_signature |-> normalize_versions(va.version_counts),
     unsafe_exprs |-> va.unsafe_exprs,
     total_exprs |-> va.total_exprs,
     unsafe_fraction |-> FDiv(AsF32(va.unsafe_exprs), AsF32(va.total_exprs))]

\* ------------------------------------------------------------------------
\* Expanded package sources (syn::File), as the walker reads them.
\* ------------------------------------------------------------------------
ExprOf(kind, kids) ==
    [SynNode("Expr", kind) EXCEPT !.kids = kids]

ExprPath(segs) ==
    [SynNode("Expr", "Path") EXCEPT !.segs = segs]

ExprStruct(segs, fields) ==
    [SynNode("Expr", "Struct") EXCEPT !.segs = segs, !.kids = fields]

Lit ==
    ExprOf("Lit", <<>>)

TypeOf(kind, kids) ==
    [SynNode("Type", kind) EXCEPT !.kids = kids]

TypePath(segs) ==
    [SynNode("Type", "Path") EXCEPT !.segs = segs]

StmtExpr(expr) ==
    [SynNode("Stmt", "Expr") EXCEPT !.kids = <<expr>>]

StmtLocal(init) ==
    [SynNode("Stmt", "Local") EXCEPT !.kids = init]

StmtItem(item) ==
    [SynNode("Stmt", "Item") EXCEPT !.kids = <<item>>]

StmtMacro ==
    SynNode("Stmt", "Macro")

\* unsafe { stmts }
ExprUnsafe(stmts) ==
    ExprOf("Unsafe", stmts)

\* [unsafe] fn ident(sig) { block }, as an Item, an ImplItem or a TraitItem
Fn(cat, ident, unsafety, sig, block) ==
    [SynNode(cat, "Fn") EXCEPT !.ident = ident, !.unsafety = unsafety, !.kids = sig \o block]

\* an item, a member or a variant with only types and expressions below it
Plain(cat, kind, ident, kids) ==
    [SynNode(cat, kind) EXCEPT !.ident = ident, !.kids = kids]

\* The library the packages are analysed against: struct Example, stable
\* since 1.1.0, with the method old_name, stable since 1.2.0, and a trait.
LibExample ==
    Library(<<>>, <<>>,
            <<Prelude(<<>>),
              Decl("Struct", "Example", Stable("1.1.0"), TRUE),
              Impl(<<>>, <<<<"Example">>>>,
                   <<Member("ImplItem", "Fn", "old_name", Stable("1.2.0"), TRUE)>>),
              Container("Trait", "Widget", Stable("1.10.0"), TRUE, <<>>)>>)

\* use std::Example as Renamed; fn f() { Renamed::old_name(); }
PkgRename ==
    <<Use(Unmarked, UsePath("std", UseRename("Example", "Renamed"))),
      Fn("Item", "f", FALSE, <<>>,
         <<StmtExpr(ExprOf("Call", <<ExprPath(<<"Renamed", "old_name">>)>>))>>)>>

\* fn f() { std::Example::old_name(); }
PkgDirect ==
    <<Fn("Item", "f", FALSE, <<>>,
         <<StmtExpr(ExprOf("Call", <<ExprPath(<<"std", "Example", "old_name">>)>>))>>)>>

\* the leaf expressions: a literal, a local variable, a macro call
Leaves ==
    {Lit, ExprPath(<<"x">>), ExprOf("Macro", <<>>)}

\* fn f() { l; unsafe { u }; l; unsafe { u }; l }
SiblingUnsafeBlocks(l, u) ==
    <<Fn("Item", "f", FALSE, <<>>,
         <<StmtExpr(l), StmtExpr(ExprUnsafe(<<StmtExpr(u)>>)), StmtExpr(l),
           StmtExpr(ExprUnsafe(<<StmtExpr(u)>>)), StmtExpr(l)>>)>>

SiblingUnsafePackages ==
    {SiblingUnsafeBlocks(l, u) : l \in Leaves, u \in Leaves}

\* unsafe fn f(x: &std::Example) -> [u8; 2] { let y = unsafe { x.0 };
\*     m!(); unsafe { unsafe { y } } }
PkgUnsafeFn ==
    <<Fn("Item", "f", TRUE,
         <<TypeOf("Reference", <<TypePath(<<"std", "Example">>)>>),
           TypeOf("Array", <<TypePath(<<"u8">>)>>)>>,
         <<StmtLocal(<<ExprUnsafe(<<StmtExpr(ExprOf("Field", <<ExprPath(<<"x">>)>>))>>)>>),
           StmtMacro,
           StmtExpr(ExprUnsafe(<<StmtExpr(ExprUnsafe(<<StmtExpr(ExprPath(<<"y">>))>>))>>))>>)>>

\* impl std::Widget for T { const C: u8 = 1; type A = !; m!();
\*     unsafe fn g() { unsafe { 1 } } fn h() { std::Example { a: 1 } } }
PkgImpl ==
    <<Impl(<<<<"std", "Widget">>>>, <<<<"T">>>>,
           <<Plain("ImplItem", "Const", "C", <<TypePath(<<"u8">>), Lit>>),
             Plain("ImplItem", "Type", "A", <<TypeOf("Never", <<>>)>>),
             Plain("ImplItem", "Macro", "", <<>>),
             Fn("ImplItem", "g", TRUE, <<>>, <<StmtExpr(ExprUnsafe(<<StmtExpr(Lit)>>))>>),
             Fn("ImplItem", "h", FALSE, <<>>,
                <<StmtExpr(ExprStruct(<<"std", "Example">>, <<Lit>>))>>)>>)>>

\* trait T { const C: u8; type A = std::Example; m!();
\*     unsafe fn g() { 1; unsafe { 2 } } }
PkgTrait ==
    <<Container("Trait", "T", Unmarked, TRUE,
                <<Plain("TraitItem", "Const", "C", <<TypePath(<<"u8">>)>>),
                  Plain("TraitItem", "Type", "A", <<TypePath(<<"std", "Example">>)>>),
                  Plain("TraitItem", "Macro", "", <<>>),
                  Fn("TraitItem", "g", TRUE, <<>>,
                     <<StmtExpr(Lit), StmtExpr(ExprUnsafe(<<StmtExpr(Lit)>>))>>)>>)>>

\* mod m { static S: u8 = 1; struct P(std::Example); enum E { V = 1 }
\*     type A = std::Example; extern crate c;
\*     fn f() { fn g() {} unsafe { return } } } mod n;
PkgMod ==
    <<Container("Mod", "m", Unmarked, FALSE,
                <<Plain("Item", "Static", "S", <<TypePath(<<"u8">>), Lit>>),
                  Plain("Item", "Struct", "P", <<TypePath(<<"std", "Example">>)>>),
                  Container("Enum", "E", Unmarked, FALSE,
                            <<Plain("Variant", "Variant", "V", <<Lit>>)>>),
                  Plain("Item", "Type", "A", <<TypePath(<<"std", "Example">>)>>),
                  Plain("Item", "ExternCrate", "c", <<>>),
                  Fn("Item", "f", FALSE, <<>>,
                     <<StmtItem(Fn("Item", "g", FALSE, <<>>, <<>>)),
                       StmtExpr(ExprUnsafe(<<StmtExpr(ExprOf("Return", <<>>))>>))>>)>>),
      [SynNode("Item", "Mod") EXCEPT !.ident = "n"]>>

\* unsafe fn g() { 1; (2, 3) } as a free function, as a method of an
\* inherent impl and as a trait method with a default body
UnsafeBody(cat) ==
    Fn(cat, "g", TRUE, <<>>, <<StmtExpr(Lit), StmtExpr(ExprOf("Tuple", <<Lit, Lit>>))>>)

PkgUnsafeFree ==
    <<UnsafeBody("Item")>>

PkgUnsafeMethod ==
    <<Impl(<<>>, <<<<"T">>>>, <<UnsafeBody("ImplItem")>>)>>

PkgUnsafeDefault ==
    <<Container("Trait", "T", Unmarked, TRUE, <<UnsafeBody("TraitItem")>>)>>

\* impl T { fn m(&self) -> u8 { self; (self, self::f) } }: the method
\* receiver as a path expression
PkgSelf ==
    <<Impl(<<>>, <<<<"T">>>>,
           <<Fn("ImplItem", "m", FALSE, <<TypePath(<<"u8">>)>>,
                <<StmtExpr(ExprPath(<<"self">>)),
                  StmtExpr(ExprOf("Tuple", <<ExprPath(<<"self">>),
                                             ExprPath(<<"self", "f">>)>>))>>)>>)>>

UnsafeBodyPackages ==
    {PkgUnsafeFree, PkgUnsafeMethod, PkgUnsafeDefault}

Packages ==
    {PkgRename, PkgDirect, PkgUnsafeFn, PkgImpl, PkgTrait, PkgMod}
        \cup SiblingUnsafePackages \cup UnsafeBodyPackages \cup {PkgSelf}

\* ------------------------------------------------------------------------
\* The paths an analysed package may ask for.
\* ------------------------------------------------------------------------
MaxPathLen ==
    3

Segments ==
    {"std", "a", "b", "Widget", "self", "super", "crate", "serde"}

RECURSIVE PathsOfLen(_)
PathsOfLen(n) ==
    IF n = 0 THEN {<<>>}
    ELSE {Append(p, s) : p \in PathsOfLen(n - 1), s \in Segments}

Paths ==
    UNION {PathsOfLen(n) : n \in 0..MaxPathLen}

\* ------------------------------------------------------------------------
\* State: one process run after the other.  load_version_constructor either
\* reads the snapshot or builds the index crate by crate and writes the
\* snapshot; then packages ask get_version.
\* ------------------------------------------------------------------------
VARIABLES vc, phase, src, crate_i, item_i, cache, query, result,
          pkg, tasks, analyzer, stats, versions, ver_i, out, walks,
          res_versions, count

vars ==
    <<vc, phase, src, crate_i, item_i, cache, query, result, pkg, tasks, analyzer, stats,
      versions, ver_i, out, walks, res_versions, count>>

\* what a walk of a package changes, and what the loader and a query change
walkVars ==
    <<pkg, tasks, analyzer, stats>>

loadVars ==
    <<vc, src, crate_i, item_i, cache, query, result>>

\* what the loop of analyze_from_crates_io over the versions changes
runVars ==
    <<versions, ver_i, out, res_versions, count>>

\* no package version is being analysed, no walks run side by side
NoRun ==
    /\ versions = <<>>
    /\ ver_i = 1
    /\ out = <<>>
    /\ walks = <<>>
    /\ res_versions = <<>>
    /\ count = 0

NoStats ==
    <<>>

NoResult ==
    [tag |-> "unasked", version |-> ""]

Init ==
    /\ vc = NewVersionConstructor
    /\ phase = "start"
    /\ src \in Libraries
    /\ crate_i = 1
    /\ item_i = 0
    /\ cache = <<>>
    /\ query = <<>>
    /\ result = NoResult
    /\ pkg = <<>>
    /\ tasks = <<>>
    /\ analyzer = NewVersionAnalyzer
    /\ stats = NoStats
    /\ NoRun

\* if let Ok(file) = File::open(CACHE_FILE) { serde_json::from_reader(file) }
LoadSnapshot ==
    /\ phase = "start"
    /\ cache # <<>>
    /\ Parses(cache[1])
    /\ vc' = Deserialize(cache[1])
    /\ phase' = "ready"
    /\ UNCHANGED <<src, crate_i, item_i, cache, query, result, walkVars, runVars, walks>>

\* .. serde_json::from_reader(file).context("failed to parse context"): the
\* error ends the process (VERSION_CONSTRUCTOR's expect)
LoadSnapshotFails ==
    /\ phase = "start"
    /\ cache # <<>>
    /\ ~Parses(cache[1])
    /\ phase' = "failed"
    /\ UNCHANGED <<vc, src, crate_i, item_i, cache, query, result, walkVars, runVars, walks>>

\* else { let mut version_constructor = VersionConstructor::new(); ..
StartBuild ==
    /\ phase = "start"
    /\ cache = <<>>
    /\ vc' = NewVersionConstructor
    /\ phase' = "building"
    /\ crate_i' = 1
    /\ item_i' = 0
    /\ UNCHANGED <<src, cache, query, result, walkVars, runVars, walks>>

\* read_to_string(..)? or syn::parse_file(..)? fails for the next crate
ReadSourceFails ==
    /\ phase = "building"
    /\ crate_i <= Len(CRATES)
    /\ item_i = 0
    /\ phase' = "failed"
    /\ UNCHANGED <<vc, src, crate_i, item_i, cache, query, result, walkVars, runVars, walks>>

\* process_file: self.push_path(name)
ProcessFileBegin ==
    /\ phase = "building"
    /\ crate_i <= Len(CRATES)
    /\ item_i = 0
    /\ vc' = push_path(vc, CRATES[crate_i])
    /\ item_i' = 1
    /\ UNCHANGED <<phase, src, crate_i, cache, query, result, walkVars, runVars, walks>>

\* process_file: for item in file.items { self.process_item(item) }
ProcessItem ==
    /\ phase = "building"
    /\ crate_i <= Len(CRATES)
    /\ item_i >= 1
    /\ item_i <= Len(src[CRATES[crate_i]])
    /\ vc' = process_item(vc, src[CRATES[crate_i]][item_i])
    /\ item_i' = item_i + 1
    /\ UNCHANGED <<phase, src, crate_i, cache, query, result, walkVars, runVars, walks>>

\* process_file: self.pop_path(), and on to the next crate
ProcessFileEnd ==
    /\ phase = "building"
    /\ crate_i <= Len(CRATES)
    /\ item_i > Len(src[CRATES[crate_i]])
    /\ vc' = pop_path(vc)
    /\ crate_i' = crate_i + 1
    /\ item_i' = 0
    /\ UNCHANGED <<phase, src, cache, query, result, walkVars, runVars, walks>>

\* the synthetic prelude alias, then the snapshot is written
FinishBuild ==
    /\ phase = "building"
    /\ crate_i > Len(CRATES)
    /\ vc' = [vc EXCEPT !.aliases = Append(@, PreludeAlias)]
    /\ cache' = <<Serialize(vc')>>
    /\ phase' = "ready"
    /\ UNCHANGED <<src, crate_i, item_i, query, result, walkVars, runVars, walks>>

\* File::create(CACHE_FILE)? fails: no file is made
CreateSnapshotFails ==
    /\ phase = "building"
    /\ crate_i > Len(CRATES)
    /\ vc' = [vc EXCEPT !.aliases = Append(@, PreludeAlias)]
    /\ phase' = "failed"
    /\ UNCHANGED <<src, crate_i, item_i, cache, query, result, walkVars, runVars, walks>>

\* File::create succeeds and serde_json::to_writer(file, ..)? fails: the
\* file stays, with what was written of it
WriteSnapshotFails ==
    /\ phase = "building"
    /\ crate_i > Len(CRATES)
    /\ vc' = [vc EXCEPT !.aliases = Append(@, PreludeAlias)]
    /\ cache' = <<Truncated(Serialize(vc'))>>
    /\ phase' = "failed"
    /\ UNCHANGED <<src, crate_i, item_i, query, result, walkVars, runVars, walks>>

\* VersionAnalyzer::process_relative_path: get_version(path) on the index.
\* An outcome other than Some or None ends the process.
GetVersion ==
    /\ phase = "ready"
    /\ \E p \in Paths :
         /\ query' = p
         /\ result' = get_version(vc, p)
    /\ phase' = IF result'.tag \in {"some", "none"} THEN "answered" ELSE "aborted"
    /\ UNCHANGED <<vc, src, crate_i, item_i, cache, walkVars, runVars, walks>>

\* For comparison: a resolver with a memory, which answers None to a path
\* it has resolved before.
GetVersionAgainForgetful ==
    /\ phase = "answered"
    /\ result' = IF result.tag = "some" THEN [tag |-> "none", version |-> ""]
                 ELSE get_version(vc, query)
    /\ phase' = IF result'.tag \in {"some", "none"} THEN "reanswered" ELSE "aborted"
    /\ UNCHANGED <<vc, src, crate_i, item_i, cache, query, walkVars, runVars, walks>>

\* the same path is submitted once more (a package names a symbol as often
\* as it likes): get_version(path) on the same index
GetVersionAgain ==
    /\ phase = "answered"
    /\ result' = get_version(vc, query)
    /\ phase' = IF result'.tag \in {"some", "none"} THEN "reanswered" ELSE "aborted"
    /\ UNCHANGED <<vc, src, crate_i, item_i, cache, query, walkVars, runVars, walks>>

\* the caller has used the answer; the index is asked again
Return ==
    /\ phase \in {"answered", "reanswered"}
    /\ phase' = "ready"
    /\ query' = <<>>
    /\ result' = NoResult
    /\ UNCHANGED <<vc, src, crate_i, item_i, cache, walkVars, runVars, walks>>

\* the process ends; the next run starts with the snapshot file as it is
NextRun ==
    /\ phase \in {"answered", "reanswered", "aborted", "failed"}
    /\ phase' = "start"
    /\ vc' = NewVersionConstructor
    /\ query' = <<>>
    /\ result' = NoResult
    /\ UNCHANGED <<src, crate_i, item_i, cache, walkVars, runVars, walks>>

Next ==
    \/ LoadSnapshot
    \/ LoadSnapshotFails
    \/ StartBuild
    \/ ReadSourceFails
    \/ ProcessFileBegin
    \/ ProcessItem
    \/ ProcessFileEnd
    \/ FinishBuild
    \/ CreateSnapshotFails
    \/ WriteSnapshotFails
    \/ GetVersion
    \/ GetVersionAgain
    \/ Return
    \/ NextRun

Spec ==
    Init /\ [][Next]_vars

\* ------------------------------------------------------------------------
\* The walk of one package against the loaded index (analyze_single).
\* ------------------------------------------------------------------------
InitWalk ==
    /\ src = LibExample
    /\ vc = BuildIndex(LibExample)
    /\ phase = "idle"
    /\ crate_i = Len(CRATES) + 1
    /\ item_i = 0
    /\ cache = <<Serialize(vc)>>
    /\ query = <<>>
    /\ result = NoResult
    /\ pkg \in Packages
    /\ tasks = <<>>
    /\ analyzer = NewVersionAnalyzer
    /\ stats = NoStats
    /\ NoRun

\* VersionAnalyzer::new(&VERSION_CONSTRUCTOR); process_file: for item in file.items
StartWalk ==
    /\ phase = "idle"
    /\ analyzer' = NewVersionAnalyzer
    /\ tasks' = pkg
    /\ phase' = "walking"
    /\ UNCHANGED <<pkg, stats, loadVars, runVars, walks>>

\* One node is entered: the analyzer after the handler's own work, the
\* nodes it visits ahead of the rest, and the end of the process when a
\* resolution did not return.
Enter(outcome) ==
    /\ analyzer' = outcome.va
    /\ tasks' = outcome.visit \o Tail(tasks)
    /\ phase' = IF outcome.va.alive THEN "walking" ELSE "aborted"
    /\ UNCHANGED <<pkg, stats, loadVars, runVars, walks>>

Next_is(cat) ==
    /\ phase = "walking"
    /\ tasks # <<>>
    /\ Head(tasks).cat = cat

WalkItem ==
    /\ Next_is("Item")
    /\ Enter(va_process_item(analyzer, vc, Head(tasks)))

WalkImplItem ==
    /\ Next_is("ImplItem")
    /\ Enter(process_impl_item(analyzer, Head(tasks)))

WalkTraitItem ==
    /\ Next_is("TraitItem")
    /\ Enter(process_trait_item(analyzer, Head(tasks)))

WalkStmt ==
    /\ Next_is("Stmt")
    /\ Enter(process_statement(analyzer, Head(tasks)))

WalkExpr ==
    /\ Next_is("Expr")
    /\ Enter(process_expr(analyzer, vc, Head(tasks)))

WalkType ==
    /\ Next_is("Type")
    /\ Enter(process_type(analyzer, vc, Head(tasks)))

\* the calls inside an unsafe fn or an unsafe block have returned:
\* self.nested_unsafe -= 1
WalkLeaveUnsafe ==
    /\ Next_is("LeaveUnsafe")
    /\ Enter(Outcome(exit_unsafe(analyzer), <<>>))

\* the items of a module have been walked: self.path.pop().unwrap()
WalkLeaveMod ==
    /\ Next_is("LeaveMod")
    /\ Enter(Outcome([analyzer EXCEPT !.path = Front(@)], <<>>))

\* process_file returns
FinishWalk ==
    /\ phase = "walking"
    /\ tasks = <<>>
    /\ phase' = "done"
    /\ UNCHANGED <<pkg, tasks, analyzer, stats, loadVars, runVars, walks>>

\* analyze_single: Ok(Stats { .. })
MakeStats ==
    /\ phase = "done"
    /\ stats' = <<Stats(analyzer)>>
    /\ phase' = "reported"
    /\ UNCHANGED <<pkg, tasks, analyzer, loadVars, runVars, walks>>

NextWalk ==
    \/ StartWalk
    \/ WalkItem
    \/ WalkImplItem
    \/ WalkTraitItem
    \/ WalkStmt
    \/ WalkExpr
    \/ WalkType
    \/ WalkLeaveUnsafe
    \/ WalkLeaveMod
    \/ FinishWalk
    \/ MakeStats

SpecWalk ==
    InitWalk /\ [][NextWalk]_vars

\* ------------------------------------------------------------------------
\* The aggregation of the counters a walk may end with.
\* ------------------------------------------------------------------------
MaxCount ==
    3

CountedVersions ==
    {"1.0.0", "1.10.0", "1.42.0", "TBD"}

\* the maps from some of the versions to counts of 1 or more
CountMaps ==
    UNION {[S -> 1..MaxCount] : S \in SUBSET CountedVersions}

InitNorm ==
    /\ src = LibExample
    /\ vc = BuildIndex(LibExample)
    /\ phase = "done"
    /\ crate_i = Len(CRATES) + 1
    /\ item_i = 0
    /\ cache = <<Serialize(vc)>>
    /\ query = <<>>
    /\ result = NoResult
    /\ pkg = <<>>
    /\ tasks = <<>>
    /\ \E counts \in CountMaps, total \in 0..MaxCount :
         \E unsafe \in {0, total} :
           analyzer = [NewVersionAnalyzer EXCEPT !.version_counts = counts,
                                                 !.total_exprs = total,
                                                 !.unsafe_exprs = unsafe]
    /\ stats = NoStats
    /\ NoRun

NextNorm ==
    MakeStats

SpecNorm ==
    InitNorm /\ [][NextNorm]_vars

\* ------------------------------------------------------------------------
\* main.rs: analyze_from_crates_io over the selected versions of a crate.
\* A version is its number, the step of analyze_version / analyze_single at
\* which its analysis fails (fault, "none" when no step fails) and the
\* output of cargo expand: text that syn parses to the items of a file, or
\* text that syn rejects.
\* ------------------------------------------------------------------------
MaxVersions ==
    2

Source(parses, items) ==
    [parses |-> parses, items |-> items]

VersionKind(fault, source) ==
    [fault |-> fault, source |-> source]

\* For comparison: a parser that answers text it cannot parse with an empty
\* file.
parse_str_empty_on_error(source) ==
    IF source.parses THEN <<source.items>> ELSE <<<<>>>>

\* syn::parse_str(&expanded_source_code): Ok(file) is <<items>>, Err is <<>>
parse_str(source) ==
    IF source.parses THEN <<source.items>> ELSE <<>>

\* the steps that fail before the source is parsed, and after the walk
FaultsBeforeParse ==
    {"download", "unpack", "expand"}

FaultsAfterWalk ==
    {"manifest", "clippy"}

VersionKinds ==
    {VersionKind("none", Source(FALSE, <<>>))}
        \cup {VersionKind(f, Source(TRUE, PkgDirect)) :
                  f \in FaultsBeforeParse \cup FaultsAfterWalk \cup {"cleanup"}}
        \cup {VersionKind("none", Source(TRUE, items)) :
                  items \in {<<>>, PkgImpl, PkgTrait, PkgMod, PkgUnsafeFn}}

InitRun ==
    /\ src = LibExample
    /\ vc = BuildIndex(LibExample)
    /\ phase = "fetching"
    /\ crate_i = Len(CRATES) + 1
    /\ item_i = 0
    /\ cache = <<Serialize(vc)>>
    /\ query = <<>>
    /\ result = NoResult
    /\ pkg = <<>>
    /\ tasks = <<>>
    /\ analyzer = NewVersionAnalyzer
    /\ stats = NoStats
    /\ \E n \in 1..MaxVersions :
         \E kinds \in [1..n -> VersionKinds] :
           versions = [k \in 1..n |-> [num |-> k, fault |-> kinds[k].fault,
                                       source |-> kinds[k].source]]
    /\ ver_i = 1
    /\ out = <<>>
    /\ walks = <<>>
    /\ res_versions = <<>>
    /\ count = 0

\* Err(err) => { error!(..); continue; }
Skip ==
    /\ ver_i' = ver_i + 1
    /\ phase' = "fetching"
    /\ stats' = NoStats
    /\ UNCHANGED <<versions, out, res_versions, count>>

\* analyze_version up to the call of analyze_single, and analyze_single up
\* to syn::parse_str: every `?` on the way returns the error to the loop.
AnalyzeVersionBegin ==
    /\ phase = "fetching"
    /\ ver_i <= Len(versions)
    /\ LET version == versions[ver_i]
           file == parse_str(version.source)
       IN IF version.fault \in FaultsBeforeParse \/ file = <<>>
          THEN Skip /\ UNCHANGED <<pkg, tasks, analyzer, loadVars, walks>>
          ELSE /\ pkg' = file[1]
               /\ phase' = "idle"
               /\ UNCHANGED <<tasks, analyzer, stats, loadVars, runVars, walks>>

\* analyze_single after the walk: the manifest, its package header, clippy
AnalyzeSingleFails ==
    /\ phase = "done"
    /\ versions[ver_i].fault \in FaultsAfterWalk
    /\ Skip
    /\ UNCHANGED <<pkg, tasks, analyzer, loadVars, walks>>

AnalyzeSingleOk ==
    /\ phase = "done"
    /\ versions[ver_i].fault \notin FaultsAfterWalk
    /\ MakeStats

\* analyze_version: remove_dir_all(temp_dir)?, then the stats go to the
\* loop: stats.push(stat)
AnalyzeVersionEnd ==
    /\ phase = "reported"
    /\ IF versions[ver_i].fault = "cleanup"
       THEN Skip
       ELSE /\ out' = Append(out, [num |-> versions[ver_i].num, stat |-> stats[1]])
            /\ ver_i' = ver_i + 1
            /\ phase' = "fetching"
            /\ stats' = NoStats
            /\ UNCHANGED <<versions, res_versions, count>>
    /\ UNCHANGED <<pkg, tasks, analyzer, loadVars, walks>>

\* Ok(stats)
RunEnd ==
    /\ phase = "fetching"
    /\ ver_i > Len(versions)
    /\ phase' = "finished"
    /\ UNCHANGED <<walkVars, loadVars, runVars, walks>>

NextRunLoop ==
    \/ AnalyzeVersionBegin
    \/ StartWalk
    \/ WalkItem
    \/ WalkImplItem
    \/ WalkTraitItem
    \/ WalkStmt
    \/ WalkExpr
    \/ WalkType
    \/ WalkLeaveUnsafe
    \/ WalkLeaveMod
    \/ FinishWalk
    \/ AnalyzeSingleFails
    \/ AnalyzeSingleOk
    \/ AnalyzeVersionEnd
    \/ RunEnd

SpecRun ==
    InitRun /\ [][NextRunLoop]_vars

\* ------------------------------------------------------------------------
\* The choice of the versions to analyse, at the head of
\* analyze_from_crates_io: the registry answers with the versions of the
\* crate (res_versions), the yanked ones are dropped, and when more than
\* count are left, count of them are kept.  Numbers are usize; the products
\* here stay far below its width.
\* ------------------------------------------------------------------------
MaxAvailable ==
    5

MaxRequested ==
    4

\* res.versions.into_iter().filter(|version| !version.yanked).collect()
NonYanked(vs) ==
    SelectSeq(vs, LAMBDA version : ~version.yanked)

\* the divisor of the closure, count - 1, is zero: the division panics
DividesByZero(c) ==
    /\ c > 0
    /\ c - 1 = 0

\* (0..count).map(|i| (i * (versions.len() - 1)) / (count - 1)).collect()
\* The closure runs once for each i of the range, not at all for count = 0.
Indices(n, c) ==
    [k \in 1..c |-> ((k - 1) * (n - 1)) \div (c - 1)]

\* indices.contains(&i)
Contains(indices, i) ==
    \E k \in DOMAIN indices : indices[k] = i

\* versions.remove(i), i counted from 0
Remove(vs, i) ==
    SubSeq(vs, 1, i) \o SubSeq(vs, i + 2, Len(vs))

\* for i in (0..versions.len()).rev() { if !indices.contains(&i) {
\* versions.remove(i); } }, from position i downwards
RECURSIVE RemoveUnselected(_, _, _)
RemoveUnselected(vs, indices, i) ==
    IF i < 0
    THEN vs
    ELSE RemoveUnselected(IF Contains(indices, i) THEN vs ELSE Remove(vs, i),
                          indices, i - 1)

InitSample ==
    /\ src = LibExample
    /\ vc = BuildIndex(LibExample)
    /\ phase = "listed"
    /\ crate_i = Len(CRATES) + 1
    /\ item_i = 0
    /\ cache = <<Serialize(vc)>>
    /\ query = <<>>
    /\ result = NoResult
    /\ pkg = <<>>
    /\ tasks = <<>>
    /\ analyzer = NewVersionAnalyzer
    /\ stats = NoStats
    /\ versions = <<>>
    /\ ver_i = 1
    /\ out = <<>>
    /\ walks = <<>>
    /\ \E n \in 0..MaxAvailable :
         \E yanked \in [1..n -> BOOLEAN] :
           res_versions = [k \in 1..n |-> [num |-> k, yanked |-> yanked[k]]]
    /\ count \in 0..MaxRequested

\* let mut versions = res.versions.into_iter().filter(..).collect()
FilterYanked ==
    /\ phase = "listed"
    /\ versions' = NonYanked(res_versions)
    /\ phase' = "filtered"
    /\ UNCHANGED <<walkVars, loadVars, ver_i, out, walks, res_versions, count>>

\* if versions.len() > count { .. }: the versions are few enough
KeepAll ==
    /\ phase = "filtered"
    /\ ~(Len(versions) > count)
    /\ phase' = "selected"
    /\ UNCHANGED <<walkVars, loadVars, runVars, walks>>

\* if versions.len() > count { let indices = ..; for i in .. }
SampleVersions ==
    /\ phase = "filtered"
    /\ Len(versions) > count
    /\ ~DividesByZero(count)
    /\ versions' = RemoveUnselected(versions, Indices(Len(versions), count),
                                    Len(versions) - 1)
    /\ phase' = "selected"
    /\ UNCHANGED <<walkVars, loadVars, ver_i, out, walks, res_versions, count>>

\* .. / (count - 1) with count = 1: "attempt to divide by zero", the
\* process ends
SamplePanics ==
    /\ phase = "filtered"
    /\ Len(versions) > count
    /\ DividesByZero(count)
    /\ phase' = "panicked"
    /\ UNCHANGED <<walkVars, loadVars, runVars, walks>>

NextSample ==
    \/ FilterYanked
    \/ KeepAll
    \/ SampleVersions
    \/ SamplePanics

SpecSample ==
    InitSample /\ [][NextSample]_vars

\* ------------------------------------------------------------------------
\* Package walks side by side.  Every walk has its own VersionAnalyzer
\* (analyze_single makes one per call) and all of them hold the same
\* &VersionConstructor; a step of a walk is one handler entered, as in the
\* walk of a single package.
\* ------------------------------------------------------------------------
NumWalkers ==
    2

Walkers ==
    1..NumWalkers

ParPackages ==
    {PkgDirect, PkgRename, PkgUnsafeFn}

\* the handler a node is given to
Handle(va, index, node) ==
    CASE node.cat = "Item" -> va_process_item(va, index, node)
      [] node.cat = "ImplItem" -> process_impl_item(va, node)
      [] node.cat = "TraitItem" -> process_trait_item(va, node)
      [] node.cat = "Stmt" -> process_statement(va, node)
      [] node.cat = "Expr" -> process_expr(va, index, node)
      [] node.cat = "Type" -> process_type(va, index, node)
      [] node.cat = "LeaveUnsafe" -> Outcome(exit_unsafe(va), <<>>)
      [] node.cat = "LeaveMod" -> Outcome([va EXCEPT !.path = Front(@)], <<>>)
      [] OTHER -> Outcome(va, <<>>)

\* process_file run from its first node to its return with nothing else
\* running: the analyzer it ends with
RECURSIVE RunAlone(_, _, _)
RunAlone(va, index, todo) ==
    IF todo = <<>> \/ ~va.alive THEN va
    ELSE LET outcome == Handle(va, index, Head(todo))
         IN RunAlone(outcome.va, index, outcome.visit \o Tail(todo))

\* VersionAnalyzer::new(&VERSION_CONSTRUCTOR) and the file to walk
NewWalk(file) ==
    [pkg |-> file, tasks |-> file, analyzer |-> NewVersionAnalyzer, phase |-> "walking"]

InitPar ==
    /\ src = LibExample
    /\ vc = BuildIndex(LibExample)
    /\ phase = "parallel"
    /\ crate_i = Len(CRATES) + 1
    /\ item_i = 0
    /\ cache = <<Serialize(vc)>>
    /\ query = <<>>
    /\ result = NoResult
    /\ pkg = <<>>
    /\ tasks = <<>>
    /\ analyzer = NewVersionAnalyzer
    /\ stats = NoStats
    /\ versions = <<>>
    /\ ver_i = 1
    /\ out = <<>>
    /\ res_versions = <<>>
    /\ count = 0
    /\ walks \in [Walkers -> {NewWalk(file) : file \in ParPackages}]

\* For comparison: walks that count into one VersionAnalyzer, the first
\* walk's, instead of each into its own.
ParStepShared(w) ==
    /\ walks[w].phase = "walking"
    /\ walks[w].tasks # <<>>
    /\ LET outcome == Handle(walks[1].analyzer, vc, Head(walks[w].tasks))
       IN walks' = [[walks EXCEPT ![w].tasks = outcome.visit \o Tail(@)]
                       EXCEPT ![1].analyzer = outcome.va]
    /\ UNCHANGED <<phase, walkVars, loadVars, runVars>>

\* walk w enters its next node
ParStep(w) ==
    /\ walks[w].phase = "walking"
    /\ walks[w].tasks # <<>>
    /\ LET outcome == Handle(walks[w].analyzer, vc, Head(walks[w].tasks))
       IN walks' = [walks EXCEPT ![w].analyzer = outcome.va,
                                 ![w].tasks = outcome.visit \o Tail(@),
                                 ![w].phase = IF outcome.va.alive THEN "walking"
                                                                  ELSE "aborted"]
    /\ UNCHANGED <<phase, walkVars, loadVars, runVars>>

\* process_file of walk w returns
ParFinish(w) ==
    /\ walks[w].phase = "walking"
    /\ walks[w].tasks = <<>>
    /\ walks' = [walks EXCEPT ![w].phase = "done"]
    /\ UNCHANGED <<phase, walkVars, loadVars, runVars>>

NextPar ==
    \E w \in Walkers :
        \/ ParStep(w)
        \/ ParFinish(w)

SpecPar ==
    InitPar /\ [][NextPar]_vars

\* ------------------------------------------------------------------------
\* Properties of the resolver and of the snapshot, under Spec
\* ------------------------------------------------------------------------
Asked ==
    phase \in {"answered", "aborted"}

\* The index has the glob re-export of the claim: an alias with defining
\* scope std::a, binding GlobChildren and target b, and std::b::Widget
\* stabilized at "1.10.0".
HasGlobReexport(index) ==
    /\ \E k \in 1..Len(index.aliases) :
         /\ index.aliases[k].root = <<"std", "a">>
         /\ index.aliases[k].local = GlobChildren
         /\ index.aliases[k].relative_path \in {<<"b">>, <<"crate", "b">>}
    /\ <<"std", "b", "Widget">> \in DOMAIN index.root
    /\ index.root[<<"std", "b", "Widget">>].version = "1.10.0"

\* C1: glob re-export discoverability.  When module a holds `pub use b::*;`
\* and b::Widget is stabilized at "1.10.0", get_version of std::a::Widget
\* is Some("1.10.0").
C1_GlobReexportResolves ==
    (Asked /\ query = <<"std", "a", "Widget">> /\ HasGlobReexport(vc))
        => result = [tag |-> "some", version |-> "1.10.0"]

\* C3: resolution terminates.  For every index the builder produces, cyclic
\* and self-referential alias lists included, and every path,
\* resolve_path_from returns after finitely many recursive calls: no call
\* ever re-enters itself with the arguments it is already running with.
C3_ResolutionTerminates ==
    result.tag # "overflow"

\* C6: snapshot round trip.  For every index and every path asked,
\* get_version on the index serialized and then deserialized (which drops
\* name and path_stack) equals get_version on the index itself.
C6_SnapshotRoundTrip ==
    Asked => get_version(Deserialize(Serialize(vc)), query) = result

\* A built index (its nodes still carry names) has answered a path that
\* resolves only through an alias.
C6_Witness ==
    /\ phase = "answered"
    /\ query = <<"std", "b", "Widget">>
    /\ query \notin DOMAIN vc.root
    /\ result = [tag |-> "some", version |-> "1.10.0"]
    /\ vc.root[<<"std">>].name = <<"std">>
    /\ Deserialize(Serialize(vc)) # vc

\* C7: unknown-root safety.  For every path whose first segment is neither
\* "self" nor the name of a child of the index root, get_version returns
\* None and does not abort, whatever the alias list contains.
C7_UnknownRootIsNone ==
    (Asked /\ query # <<>> /\ query[1] # "self" /\ ~HasChild(vc.root, <<>>, query[1]))
        => (result.tag = "none" /\ phase = "answered")

\* An unknown crate name was asked of an index with aliases, one of them
\* in the root scope, and with a prelude symbol of the second segment's name.
C7_Witness ==
    /\ phase = "answered"
    /\ query = <<"serde", "Widget">>
    /\ <<"std", "prelude", "v1", "Widget">> \in DOMAIN vc.root
    /\ Len(vc.aliases) >= 1
    /\ result.tag = "none"

\* C7 as stated: for every path whose first segment is not the name of a
\* child of the index root, get_version returns None.
C7_AsStated ==
    (Asked /\ query # <<>> /\ ~HasChild(vc.root, <<>>, query[1]))
        => result.tag = "none"

\* C8: implicit prelude visibility.  For every name X that is a child of
\* std::prelude::v1, the bare path [X] (and [X, y] for a child y of that
\* symbol) resolves through the synthetic root-scoped GlobChildren alias to
\* the version recorded under the prelude.
C8_PreludeVisible ==
    (Asked /\ query # <<>> /\ (<<"std", "prelude", "v1">> \o query) \in DOMAIN vc.root)
        => result = [tag |-> "some",
                     version |-> vc.root[<<"std", "prelude", "v1">> \o query].version]

\* C9: resolution failure is always the value None and never an abort: for
\* every index and every path get_version returns Some or None.
C9_NeverAborts ==
    phase # "aborted"

\* The unwrap of the fallback lookup (std_versions.rs 446-448, 472-474) is
\* not reached with a failed lookup in any index of this model.
FallbackUnwrapNotReached ==
    result.tag # "panic"

RECURSIVE FirstMiss(_, _, _, _)
FirstMiss(index, path, i, current) ==
    IF i > Len(path) \/ path[i] = "super" THEN 0
    ELSE IF path[i] = "self" THEN FirstMiss(index, path, i + 1, current)
    ELSE IF HasChild(index.root, current, path[i])
         THEN FirstMiss(index, path, i + 1, Append(current, path[i]))
    ELSE i

\* The aliases the loop of resolve_path_from goes into after path[i] missed
\* (as positions in the alias list, which the loop follows in order): those
\* that pass the filter on the scope and, when Named, the test on the name.
Examined(index, root_path, path, i) ==
    LET path_until_here == PathUntilHere(root_path, path, i)
    IN IF path_until_here = <<>> THEN {}
       ELSE {k \in 1..Len(index.aliases) :
                /\ index.aliases[k].root = Front(path_until_here)
                /\ index.aliases[k].local.kind = "Named"
                       => index.aliases[k].local.name = Last(path_until_here)}

\* C14: alias candidate selection on a miss.  When segment s = path[i] has
\* no matching child, the candidates examined are exactly the aliases whose
\* defining scope equals root_path ++ path[0..i], all segments consumed so
\* far, and a Named(n) candidate applies only if n equals the missed
\* segment s.
C14_CandidatesOfMiss ==
    (Asked /\ FirstMiss(vc, query, 1, <<>>) > 0)
        => LET i == FirstMiss(vc, query, 1, <<>>)
           IN Examined(vc, <<>>, query, i)
                  = {k \in 1..Len(vc.aliases) :
                        /\ vc.aliases[k].root = SubSeq(query, 1, i - 1)
                        /\ vc.aliases[k].local.kind = "Named"
                               => vc.aliases[k].local.name = query[i]}

\* What follows from C14 for a named re-export: std::a holds
\* `pub use crate::b::Widget;`, and std::a::Widget is the version of
\* std::b::Widget.
NamedReexportResolves ==
    (Asked /\ src = LibNamedInner /\ query = <<"std", "a", "Widget">>)
        => result = [tag |-> "some", version |-> "1.10.0"]

\* An alias whose target resolves neither from its defining scope nor from
\* the index root.
Unresolvable(index, alias) ==
    LET base == ResolveFromRoot(index, alias.root)
    IN /\ ResolveFromRoot(index, alias.relative_path).tag = "none"
       /\ \/ base.tag = "none"
          \/ /\ base.tag = "some"
             /\ resolve_path_from(index, base.node, alias.root, alias.relative_path, {}).tag
                    = "none"

\* the index without its unresolvable Named aliases
WithoutUnresolvableNamed(index) ==
    [index EXCEPT !.aliases =
        SelectSeq(@, LAMBDA alias : ~(alias.local.kind = "Named" /\ Unresolvable(index, alias)))]

\* C15: candidate fall-through.  A candidate whose target cannot be resolved
\* is passed over and the next candidate in declaration order is tried; so
\* an unresolvable Named alias does not change the result of any path: the
\* answer is the one the index gives without its unresolvable Named aliases.
C15_UnresolvablePassedOver ==
    phase = "answered" => get_version(WithoutUnresolvableNamed(vc), query) = result

\* What C15 says of an unresolvable import of b placed before a resolvable
\* one: std::b::Widget is the version of core::b::Widget.
SecondCandidateTried ==
    (Asked /\ src = LibDuplicate /\ query = <<"std", "b", "Widget">>)
        => result = [tag |-> "some", version |-> "1.10.0"]

\* the path without its "self" segments
RECURSIVE WithoutSelf(_)
WithoutSelf(path) ==
    IF path = <<>> THEN <<>>
    ELSE IF path[1] = "self" THEN WithoutSelf(Tail(path))
    ELSE <<path[1]>> \o WithoutSelf(Tail(path))

\* the path with a "self" segment put after its first k segments
InsertSelf(path, k) ==
    SubSeq(path, 1, k) \o <<"self">> \o SubSeq(path, k + 1, Len(path))

\* C16: "self" is a no-op segment.  For every index and every path p, a
\* path made by inserting "self" segments at any positions of p resolves to
\* the same result as p, also when p resolves through an alias: the answer
\* to a path is the answer to the path without its "self" segments.
C16_SelfIsNoOp ==
    phase = "answered"
        => /\ get_version(vc, WithoutSelf(query)) = result
           /\ \A k \in 0..Len(query) : get_version(vc, InsertSelf(query, k)) = result

\* What C16 says of std::b::Widget, which resolves through the alias of
\* `pub use core::b;`: std::b::self::Widget is the same symbol.
SelfBeforeMissedSegment ==
    (phase = "answered" /\ src = LibStub /\ query = <<"std", "b", "Widget">>)
        => get_version(vc, <<"std", "b", "self", "Widget">>) = result

\* Where a "self" placed before a found segment, or at the end, changes
\* nothing: the paths that resolve without an alias.
SelfBeforeFoundSegment ==
    (phase = "answered" /\ WithoutSelf(query) \in DOMAIN vc.root)
        => get_version(vc, WithoutSelf(query)) = result

\* C21: literal paths shadow aliases.  For every index and every path p
\* without "self" or "super" whose segments name an existing chain of
\* children starting at the index root, get_version(p) returns the version
\* stored at that literal node, whatever the alias list contains.
C21_LiteralShadowsAlias ==
    (Asked /\ query \in DOMAIN vc.root
           /\ \A k \in 1..Len(query) : query[k] \notin {"self", "super"})
        => result = [tag |-> "some", version |-> vc.root[query].version]

\* std::b was asked of an index where it is both a node (the entry of
\* `pub use core::b;`, version "1.2.0") and the name of an alias of scope
\* std whose target core::b has another version.
C21_Witness ==
    /\ phase = "answered"
    /\ query = <<"std", "b">>
    /\ \E k \in 1..Len(vc.aliases) :
         /\ vc.aliases[k].root = <<"std">>
         /\ vc.aliases[k].local = Named("b")
         /\ vc.aliases[k].relative_path = <<"core", "b">>
    /\ vc.root[<<"core", "b">>].version = "1.1.0"
    /\ result = [tag |-> "some", version |-> "1.2.0"]

\* ------------------------------------------------------------------------
\* Properties of the builder, under Spec
\* ------------------------------------------------------------------------
\* The local names a use tree binds, as the claim has them: the name of a
\* terminal name, the new name of `x as y`, and for a terminal `self` the
\* last segment of the path accumulated down to it.
RECURSIVE LocalNames(_, _)
LocalNames(tree, accumulated) ==
    CASE tree.kind = "Path" ->
           LocalNames(tree.sub[1],
                      IF tree.ident # "self" THEN Append(accumulated, tree.ident)
                                             ELSE accumulated)
      [] tree.kind = "Name" ->
           IF tree.ident # "self" THEN <<tree.ident>>
           ELSE IF accumulated # <<>> THEN <<Last(accumulated)>> ELSE <<>>
      [] tree.kind = "Rename" -> <<tree.rename>>
      [] tree.kind = "Group" ->
           LET RECURSIVE each(_)
               each(k) == IF k > Len(tree.sub) THEN <<>>
                          ELSE LocalNames(tree.sub[k], accumulated) \o each(k + 1)
           IN each(1)
      [] OTHER -> <<>>

\* the use tree has a renamed name or a terminal `self` in it
RECURSIVE HasRenameOrSelf(_)
HasRenameOrSelf(tree) ==
    CASE tree.kind = "Path" -> HasRenameOrSelf(tree.sub[1])
      [] tree.kind = "Name" -> tree.ident = "self"
      [] tree.kind = "Rename" -> TRUE
      [] tree.kind = "Group" -> \E k \in 1..Len(tree.sub) : HasRenameOrSelf(tree.sub[k])
      [] OTHER -> FALSE

\* the builder is about to process an item of the crate's file that is a
\* use item with a stability attribute
AtStableUse ==
    /\ phase = "building"
    /\ crate_i <= Len(CRATES)
    /\ item_i >= 1
    /\ item_i <= Len(src[CRATES[crate_i]])
    /\ src[CRATES[crate_i]][item_i].kind = "Use"
    /\ src[CRATES[crate_i]][item_i].attrs # <<>>

\* the step of the builder over that use item has the effect of the claim:
\* one alias Named(n) in the current scope and the version at scope::n for
\* every local name n, and no version written onto the scope's own node
UseEntriesRecorded ==
    LET item == src[CRATES[crate_i]][item_i]
        scope == vc.path_stack
        names == LocalNames(item.tree, <<>>)
        added == SubSeq(vc'.aliases, Len(vc.aliases) + 1, Len(vc'.aliases))
    IN /\ \A k \in 1..Len(names) :
            /\ Cardinality({j \in 1..Len(added) :
                                added[j].root = scope /\ added[j].local = Named(names[k])}) = 1
            /\ Append(scope, names[k]) \in DOMAIN vc'.root
            /\ vc'.root[Append(scope, names[k])].version = item.attrs[1]
       /\ scope \in DOMAIN vc'.root
             => vc'.root[scope].version = IF scope \in DOMAIN vc.root
                                          THEN vc.root[scope].version
                                          ELSE DefaultVersion

\* C20: use-import stability entry.  For every terminal name or renamed
\* name of a use tree that carries a stability attribute, the builder emits
\* exactly one alias with binding Named(n) in the current scope and records
\* the stability version at <current scope>::n for that same name n (for
\* `x as y` the local name, for a terminal `self` the last segment of the
\* accumulated path); it never writes the version onto the enclosing
\* scope's own node.
C20_UseImportEntry ==
    [][(AtStableUse /\ item_i' = item_i + 1) => UseEntriesRecorded]_vars

\* For a use tree of plain terminal names, without `as` and without a
\* terminal `self`, the entries are recorded as the claim says.
PlainUseImportEntry ==
    [][(AtStableUse /\ item_i' = item_i + 1
            /\ ~HasRenameOrSelf(src[CRATES[crate_i]][item_i].tree))
          => UseEntriesRecorded]_vars

\* C23: snapshot file integrity across runs.  After any run of
\* load_version_constructor the snapshot file exists only if index
\* construction completed and the whole index was written; a run that fails
\* (reading or parsing a crate source, creating the file, or writing it)
\* leaves no snapshot file behind, so a later run rebuilds and does not fail
\* on deserialization.
C23_SnapshotWholeOrAbsent ==
    /\ cache # <<>> => (Parses(cache[1]) /\ cache[1] = Serialize(BuildIndex(src)))
    /\ (phase = "failed" /\ crate_i > Len(CRATES)) => cache = <<>>

\* A run that fails before the file is created (a crate source that cannot
\* be read, a file that cannot be created) leaves no file, and a snapshot
\* that a run wrote to its end is the whole index.
SnapshotAbsentAfterEarlyFailure ==
    /\ (phase = "failed" /\ crate_i <= Len(CRATES)) => cache = <<>>
    /\ (cache # <<>> /\ Parses(cache[1])) => cache[1] = Serialize(BuildIndex(src))

\* No run is stopped by deserialization: a run that finds a snapshot file
\* loads it.
SnapshotAlwaysLoads ==
    [][phase = "start" => phase' # "failed"]_vars

\* ------------------------------------------------------------------------
\* Properties of the walker, under SpecWalk
\* ------------------------------------------------------------------------
\* C2: rename transparency.  With Example::old_name stabilized at "1.2.0" in
\* the index, walking `use std::Example as Renamed;` followed by a reference
\* to Renamed::old_name counts "1.2.0" once, for that reference.
C2_RenameTransparent ==
    (phase = "done" /\ pkg = PkgRename)
        => /\ "1.2.0" \in DOMAIN analyzer.version_counts
           /\ analyzer.version_counts["1.2.0"] = 1

\* The same reference written in full, std::Example::old_name, is counted:
\* the index does hold the symbol.
DirectReferenceCounted ==
    (phase = "done" /\ pkg = PkgDirect) => analyzer.version_counts = ("1.2.0" :> 1)

\* C4: unsafe-nesting accounting.  Walking a function body with two sibling
\* unsafe blocks, each wrapping one leaf expression, interleaved with three
\* leaf expressions outside any unsafe block, ends with total_exprs == 7
\* (the five leaves and the two unsafe block expressions themselves) and
\* unsafe_exprs == 2.
C4_SiblingUnsafeCounts ==
    (phase = "done" /\ pkg \in SiblingUnsafePackages)
        => (analyzer.total_exprs = 7 /\ analyzer.unsafe_exprs = 2)

\* Such a body has been walked to its end.
C4_Witness ==
    /\ phase = "done"
    /\ pkg = SiblingUnsafeBlocks(Lit, ExprPath(<<"x">>))
    /\ analyzer.total_exprs > 0
    /\ analyzer.unsafe_exprs > 0

\* C4 as stated: the walk ends with total_exprs == 5 and unsafe_exprs == 2.
C4_AsStated ==
    (phase = "done" /\ pkg \in SiblingUnsafePackages)
        => (analyzer.total_exprs = 5 /\ analyzer.unsafe_exprs = 2)

\* C10: unsafe-depth restoration.  Each operation that increments
\* nested_unsafe (unsafe free function, unsafe impl method, unsafe block)
\* leaves it, when it returns, equal to its value before entry, whatever
\* nodes were met inside; and nested_unsafe is 0 when process_file returns.
C10_UnsafeDepthRestored ==
    /\ [][Next_is("LeaveUnsafe") => analyzer'.nested_unsafe = Head(tasks).entry]_vars
    /\ [](phase \in {"done", "reported"} => analyzer.nested_unsafe = 0)

\* An unsafe fn holding unsafe blocks, one inside the other, and node kinds
\* without a handler has been walked: expressions were counted at depth > 0
\* and the walk is over.
C10_Witness ==
    /\ phase = "done"
    /\ pkg = PkgUnsafeFn
    /\ analyzer.unsafe_exprs = 5
    /\ analyzer.nested_unsafe = 0

\* C17: expression counting.  Every expression node the walker visits
\* increments total_exprs by exactly one, and unsafe_exprs by exactly one if
\* and only if nested_unsafe > 0 at that moment; a node that is not an
\* expression changes neither counter; so unsafe_exprs <= total_exprs in
\* every state of a walk, and neither counter ever decreases.
C17_ExpressionCounting ==
    /\ [][Next_is("Expr")
            => /\ analyzer'.total_exprs = analyzer.total_exprs + 1
               /\ analyzer'.unsafe_exprs =
                      analyzer.unsafe_exprs + (IF analyzer.nested_unsafe > 0 THEN 1 ELSE 0)]_vars
    /\ [][(phase = "walking" /\ ~Next_is("Expr"))
            => /\ analyzer'.total_exprs = analyzer.total_exprs
               /\ analyzer'.unsafe_exprs = analyzer.unsafe_exprs]_vars
    /\ [][/\ analyzer'.total_exprs >= analyzer.total_exprs
          /\ analyzer'.unsafe_exprs >= analyzer.unsafe_exprs]_vars
    /\ [](analyzer.unsafe_exprs <= analyzer.total_exprs)

\* A walk has ended that counted expressions both inside and outside of
\* unsafe code.
C17_Witness ==
    /\ phase = "done"
    /\ pkg = PkgImpl
    /\ analyzer.total_exprs = 5
    /\ analyzer.unsafe_exprs = 2

\* C18: every expression inside the body of a function explicitly marked
\* unsafe is counted in unsafe_exprs, for every kind of function body the
\* walker traverses: free functions, impl methods, and trait methods with a
\* default body.  The packages here hold one unsafe function and nothing
\* else, so all their expressions are unsafe ones.
C18_UnsafeFunctionBodies ==
    (phase = "done" /\ pkg \in UnsafeBodyPackages)
        => (analyzer.total_exprs = 4 /\ analyzer.unsafe_exprs = analyzer.total_exprs)

\* For the free function and the impl method the expressions are counted
\* as unsafe.
UnsafeFreeAndMethodCounted ==
    (phase = "done" /\ pkg \in {PkgUnsafeFree, PkgUnsafeMethod})
        => (analyzer.total_exprs = 4 /\ analyzer.unsafe_exprs = 4)

\* The path references the handler of a node submits, in order: the path
\* of a path or struct expression, of a path type and of the trait of an
\* impl, and the imported paths of a use item.
RECURSIVE UsePaths(_, _)
UsePaths(tree, prefix) ==
    CASE tree.kind = "Path" -> UsePaths(tree.sub[1], Append(prefix, tree.ident))
      [] tree.kind \in {"Name", "Rename"} -> <<Append(prefix, tree.ident)>>
      [] tree.kind = "Group" ->
           LET RECURSIVE each(_)
               each(k) == IF k > Len(tree.sub) THEN <<>>
                          ELSE UsePaths(tree.sub[k], prefix) \o each(k + 1)
           IN each(1)
      [] OTHER -> <<>>

Submitted(node) ==
    IF node.cat \in {"LeaveUnsafe", "LeaveMod"} THEN <<>>
    ELSE CASE node.cat = "Expr" /\ node.kind \in {"Path", "Struct"} -> <<node.segs>>
           [] node.cat = "Type" /\ node.kind = "Path" -> <<node.segs>>
           [] node.cat = "Item" /\ node.kind = "Impl" /\ node.trait_ # <<>> -> <<node.trait_[1]>>
           [] node.cat = "Item" /\ node.kind = "Use" -> UsePaths(node.tree, <<>>)
           [] OTHER -> <<>>

\* version_counts after the references refs, as the claim has it: a
\* reference that resolves with version v adds one to the count of v, which
\* is 0 when v is absent; one that fails changes nothing.
RECURSIVE CountedAfter(_, _, _)
CountedAfter(counts, index, refs) ==
    IF refs = <<>> THEN counts
    ELSE LET r == get_version(index, refs[1])
             v == r.version
             before == IF v \in DOMAIN counts THEN counts[v] ELSE 0
         IN CountedAfter(IF r.tag = "some"
                         THEN [k \in DOMAIN counts \cup {v} |->
                                  IF k = v THEN before + 1 ELSE counts[k]]
                         ELSE counts,
                         index, Tail(refs))

\* the sum of the values of version_counts, and the number of the
\* references of refs that resolve
RECURSIVE SumOf(_)
SumOf(counts) ==
    IF DOMAIN counts = {} THEN 0
    ELSE LET v == CHOOSE k \in DOMAIN counts : TRUE
         IN counts[v] + SumOf([k \in DOMAIN counts \ {v} |-> counts[k]])

Resolved(index, refs) ==
    Cardinality({k \in 1..Len(refs) : get_version(index, refs[k]).tag = "some"})

\* C19: version counting effect.  Submitting a path reference whose
\* resolution succeeds with version v increases version_counts[v] by
\* exactly one (inserting it as 1 if absent) and changes no other key; a
\* reference whose resolution fails leaves version_counts unchanged; a
\* node that is no expression leaves total_exprs and unsafe_exprs
\* unchanged whatever it submits.  Hence the sum of all version_counts
\* values grows by the number of successfully resolved references.
C19_VersionCountingEffect ==
    /\ [][(phase = "walking" /\ tasks # <<>>)
            => /\ analyzer'.version_counts
                     = CountedAfter(analyzer.version_counts, vc, Submitted(Head(tasks)))
               /\ SumOf(analyzer'.version_counts)
                     = SumOf(analyzer.version_counts) + Resolved(vc, Submitted(Head(tasks)))]_vars
    /\ [][(phase = "walking" /\ tasks # <<>> /\ Head(tasks).cat # "Expr")
            => /\ analyzer'.total_exprs = analyzer.total_exprs
               /\ analyzer'.unsafe_exprs = analyzer.unsafe_exprs]_vars

\* A walk has ended that submitted a path that does not resolve (u8) and
\* twice a path that does (std::Example, in two types).
C19_Witness ==
    /\ phase = "done"
    /\ pkg = PkgMod
    /\ analyzer.version_counts = ("1.1.0" :> 2)

\* the paths of up to MaxPathLen segments that are all "self", the empty
\* path among them
SelfPaths ==
    {[k \in 1..n |-> "self"] : n \in 0..MaxPathLen}

\* C22: a path that is empty or consists only of "self" segments resolves
\* from the index root to the unnamed root node itself, whose version is
\* the default "1.0.0"; consequently every `self` path expression the
\* walker visits in a package increments version_counts["1.0.0"] by one.
C22_SelfPathCountsDefault ==
    /\ [](\A p \in SelfPaths :
             /\ ResolveFromRoot(vc, p) = Found(<<>>)
             /\ get_version(vc, p) = [tag |-> "some", version |-> "1.0.0"])
    /\ [][(Next_is("Expr") /\ Head(tasks).kind = "Path" /\ Head(tasks).segs \in SelfPaths)
            => analyzer'.version_counts
                 = [v \in DOMAIN analyzer.version_counts \cup {"1.0.0"} |->
                       IF v = "1.0.0"
                       THEN (IF v \in DOMAIN analyzer.version_counts
                             THEN analyzer.version_counts[v] ELSE 0) + 1
                       ELSE analyzer.version_counts[v]]]_vars

\* A method whose body names its receiver twice has been walked: "1.0.0"
\* was counted twice, and nothing else.
C22_Witness ==
    /\ phase = "done"
    /\ pkg = PkgSelf
    /\ analyzer.version_counts = ("1.0.0" :> 2)

\* The same under Spec, for every index built or loaded: an asked path of
\* "self" segments only is answered Some("1.0.0").
SelfPathIsRoot ==
    (Asked /\ query \in SelfPaths) => result = [tag |-> "some", version |-> "1.0.0"]

\* ------------------------------------------------------------------------
\* Properties of the aggregator, under SpecNorm
\* ------------------------------------------------------------------------
\* C5: version-signature degeneracy.  For a version_counts map with exactly
\* one key, whose version parses with minor component m, and any count
\* c >= 1, normalize_versions returns exactly m and the weight of the key
\* is 1.0.
C5_SingleVersionSignature ==
    (phase = "reported" /\ Cardinality(DOMAIN analyzer.version_counts) = 1)
        => LET version == CHOOSE k \in DOMAIN analyzer.version_counts : TRUE
               c == analyzer.version_counts[version]
               m == rust_version_to_number(version)
           IN m # <<>> => /\ stats[1].version_signature = AsF32(m[1])
                          /\ weight(c, c) = AsF32(1)

\* For a count of 2 or more the signature is m.
SingleVersionRepeated ==
    (phase = "reported" /\ Cardinality(DOMAIN analyzer.version_counts) = 1)
        => LET version == CHOOSE k \in DOMAIN analyzer.version_counts : TRUE
               c == analyzer.version_counts[version]
               m == rust_version_to_number(version)
           IN (m # <<>> /\ c >= 2) => stats[1].version_signature = AsF32(m[1])

\* ------------------------------------------------------------------------
\* Properties of the loop over the versions, under SpecRun
\* ------------------------------------------------------------------------
\* the numbers of the versions whose analysis meets no failing step
RECURSIVE AnalysableNums(_)
AnalysableNums(vs) ==
    IF vs = <<>> THEN <<>>
    ELSE (IF vs[1].fault = "none" /\ vs[1].source.parses THEN <<vs[1].num>> ELSE <<>>)
             \o AnalysableNums(Tail(vs))

\* C11: a package whose expanded source fails to parse yields a failure from
\* analyze_single and no Stats record.  No record of the output belongs to
\* a version whose source does not parse, and when the loop ends the output
\* holds, in order, exactly the versions whose analysis did not fail: the
\* loop went on past every unparseable version.
C11_UnparseableSkipped ==
    /\ \A k \in 1..Len(out) : versions[out[k].num].source.parses
    /\ phase = "finished" => [k \in 1..Len(out) |-> out[k].num] = AnalysableNums(versions)

\* The loop has ended after an unparseable version followed by one that was
\* analysed: the output holds the record of the second one only.
C11_Witness ==
    /\ phase = "finished"
    /\ Len(versions) = 2
    /\ ~versions[1].source.parses
    /\ Len(out) = 1
    /\ out[1].num = 2
    /\ out[1].stat.total_exprs > 0

\* ------------------------------------------------------------------------
\* Properties of walks side by side, under SpecPar
\* ------------------------------------------------------------------------
\* C12: concurrent walks are independent.  Under every interleaving of the
\* steps of the walks no step changes the index (tree or alias list), a step
\* changes the state of one walk only, and each walk ends with the
\* version_counts, total_exprs and unsafe_exprs it ends with when it runs
\* alone.
C12_WalksIndependent ==
    /\ [][vc' = vc /\ cache' = cache]_vars
    /\ [][Cardinality({w \in Walkers : walks'[w] # walks[w]}) <= 1]_vars
    /\ [](\A w \in Walkers :
            walks[w].phase = "done"
                => walks[w].analyzer = RunAlone(NewVersionAnalyzer, vc, walks[w].pkg))

\* Two walks have ended after running interleaved: the second ended while
\* the first was inside an unsafe block, and both counted.
C12_Witness ==
    /\ walks[1].pkg = PkgUnsafeFn
    /\ walks[1].phase = "walking"
    /\ walks[1].analyzer.nested_unsafe = 2
    /\ walks[2].pkg = PkgDirect
    /\ walks[2].phase = "done"
    /\ walks[2].analyzer.version_counts = ("1.2.0" :> 1)
    /\ walks[2].analyzer.unsafe_exprs = 0


\* ------------------------------------------------------------------------
\* Properties of the choice of versions, under SpecSample
\* ------------------------------------------------------------------------
Min(a, b) ==
    IF a < b THEN a ELSE b

\* vs holds elements of ws in the order of ws, none twice
InOrderNoDuplicates(vs, ws) ==
    /\ \A k \in DOMAIN vs : \E j \in DOMAIN ws : ws[j] = vs[k]
    /\ \A k \in 1..(Len(vs) - 1) : vs[k].num < vs[k + 1].num

\* what the claim says of the versions chosen out of the n that are not
\* yanked, for a count of c
ChosenAsSpecified(c) ==
    LET all == NonYanked(res_versions)
        n == Len(all)
    IN /\ Len(versions) = Min(c, n)
       /\ InOrderNoDuplicates(versions, all)
       /\ (c >= 2 /\ n > c)
              => /\ versions[1] = all[1]
                 /\ versions[Len(versions)] = all[n]

\* C24: version sampling.  For every requested count c >= 1 and every
\* number n of versions that are not yanked, the selection keeps exactly
\* min(c, n) of them, in their original order and none twice, and never
\* aborts (no division by zero); for c >= 2 and n > c the first and the
\* last version are among those kept.
C24_SamplingTotal ==
    count >= 1
        => /\ phase # "panicked"
           /\ phase = "selected" => ChosenAsSpecified(count)

\* For a count of 2 or more the selection is as the claim says, and a
\* count of 0 keeps nothing and does not abort either.
SamplingFromTwo ==
    /\ count >= 2 => /\ phase # "panicked"
                     /\ phase = "selected" => ChosenAsSpecified(count)
    /\ (count = 0 /\ phase = "selected") => versions = <<>>
    /\ phase = "panicked" => (count = 1 /\ Len(NonYanked(res_versions)) >= 2)

\* A count of 1 with one version or none to choose from passes.
SamplingOneOfOne ==
    (count = 1 /\ Len(NonYanked(res_versions)) <= 1 /\ phase = "filtered")
        => ENABLED KeepAll

\* Versions were dropped: the first, a middle one and the last are kept of
\* five, with one yanked version in the answer of the registry.
SamplingKeepsEnds ==
    /\ phase = "selected"
    /\ count = 3
    /\ Len(res_versions) = MaxAvailable
    /\ Len(NonYanked(res_versions)) = MaxAvailable - 1
    /\ Len(versions) = 3

====
